---- MODULE Spec2Model ----
(***************************************************************************)
(* Sentence retrieval of language-coach: the quick tokenizer, the per-     *)
(* language sentence index (build, persistence, load), the GDEX scorer,    *)
(* get_best_examples and the services that call them.                      *)
(*                                                                         *)
(* Texts and tokens are strings in the state; the string functions of the  *)
(* source work on their characters (sequences of one-character strings).   *)
(* Scores are exact rationals <<n, d>> (d > 0, lowest terms) standing for  *)
(* the Python floats of the source.                                        *)
(***************************************************************************)
EXTENDS Integers, Sequences, FiniteSets, TLC

(***************************************************************************)
(* Characters and Python's string functions                                *)
(***************************************************************************)
AsciiUpper == <<"A","B","C","D","E","F","G","H","I","J","K","L","M",
                "N","O","P","Q","R","S","T","U","V","W","X","Y","Z">>
AsciiLower == <<"a","b","c","d","e","f","g","h","i","j","k","l","m",
                "n","o","p","q","r","s","t","u","v","w","x","y","z">>
Digits == <<"0","1","2","3","4","5","6","7","8","9">>
\* Letters outside ASCII that occur in the corpus (Python's \w and
\* str.lower() are Unicode aware).
OtherUpper == <<"Á","É","Í","Ó","Ñ">>
OtherLower == <<"á","é","í","ó","ñ">>
\* Python str.split() / str.strip() / regex \s whitespace.
Whitespace == <<" ", "\t", "\n">>

Range(s) == {s[i] : i \in DOMAIN s}
IsIn(c, chars) == \E i \in DOMAIN chars : chars[i] = c

\* str.isupper() of one character.
IsUpper(c) == IsIn(c, AsciiUpper \o OtherUpper)

\* regex class [a-zA-Z0-9]
IsAsciiAlnum(c) == IsIn(c, AsciiLower \o AsciiUpper \o Digits)

\* regex class \w (Unicode): letters, digits and the underscore.
IsWordChar(c) == IsAsciiAlnum(c) \/ IsIn(c, OtherLower \o OtherUpper \o <<"_">>)

\* regex class \s
IsSpace(c) == IsIn(c, Whitespace)

\* str.lower() of one character.
MapChar(c, from, to) ==
    IF IsIn(c, from) THEN to[CHOOSE i \in DOMAIN from : from[i] = c] ELSE c
LowerChar(c) == MapChar(c, AsciiUpper \o OtherUpper, AsciiLower \o OtherLower)

\* str.lower()
RECURSIVE LowerFrom(_, _)
LowerFrom(s, i) ==
    IF i > Len(s) THEN <<>> ELSE <<LowerChar(s[i])>> \o LowerFrom(s, i + 1)
Lower(s) == LowerFrom(s, 1)

\* Whether sub occurs in s at 0-based offset k.
MatchAt(s, sub, k) == \A i \in 1..Len(sub) : s[k + i] = sub[i]

\* str.find(sub): smallest 0-based offset at which sub occurs in s, -1 if none.
RECURSIVE FindFrom(_, _, _)
FindFrom(s, sub, k) ==
    IF k + Len(sub) > Len(s) THEN -1
    ELSE IF MatchAt(s, sub, k) THEN k
    ELSE FindFrom(s, sub, k + 1)
Find(s, sub) == FindFrom(s, sub, 0)

\* Python's `sub in s` on strings.
Contains(s, sub) == Find(s, sub) >= 0

\* str.strip()
RECURSIVE LStripFrom(_, _)
LStripFrom(s, i) ==
    IF i <= Len(s) /\ IsSpace(s[i]) THEN LStripFrom(s, i + 1) ELSE SubSeq(s, i, Len(s))
RECURSIVE RStripFrom(_, _)
RStripFrom(s, n) ==
    IF n >= 1 /\ IsSpace(s[n]) THEN RStripFrom(s, n - 1) ELSE SubSeq(s, 1, n)
LStrip(s) == LStripFrom(s, 1)
RStrip(s) == RStripFrom(s, Len(s))
Strip(s) == RStrip(LStrip(s))

\* str.split(): the maximal runs of non-whitespace characters, in order.
RECURSIVE SplitFrom(_, _, _)
SplitFrom(s, i, cur) ==
    IF i > Len(s)
    THEN IF cur = <<>> THEN <<>> ELSE <<cur>>
    ELSE IF IsSpace(s[i])
         THEN (IF cur = <<>> THEN <<>> ELSE <<cur>>) \o SplitFrom(s, i + 1, <<>>)
         ELSE SplitFrom(s, i + 1, Append(cur, s[i]))

\* The pieces of s, each cut after the first whitespace character at or past
\* its sixteenth character.  No run of non-whitespace characters goes over
\* a cut, so what splitting or matching word by word finds in s is what it
\* finds in the pieces, in order; long texts are evaluated piece by piece.
FirstSpaceIn(s, positions) ==
    IF \E i \in positions : IsSpace(s[i])
    THEN CHOOSE i \in positions :
             /\ IsSpace(s[i])
             /\ \A j \in positions : IsSpace(s[j]) => i <= j
    ELSE 0
RECURSIVE PiecesAt(_, _)
PiecesRest(rest) == PiecesAt(rest, FirstSpaceIn(rest, 16..Len(rest)))
PiecesAt(s, cut) ==
    IF cut = 0 THEN <<s>>
    ELSE <<SubSeq(s, 1, cut)>> \o PiecesRest(SubSeq(s, cut + 1, Len(s)))
Pieces(s) == PiecesRest(s)

RECURSIVE SplitPieces(_, _)
SplitPieces(pieces, k) ==
    IF k > Len(pieces) THEN <<>>
    ELSE SplitFrom(pieces[k], 1, <<>>) \o SplitPieces(pieces, k + 1)
Split(s) == SplitPieces(Pieces(s), 1)

\* The string made of a sequence of characters.
RECURSIVE StrFrom(_, _)
StrFrom(cs, i) == IF i > Len(cs) THEN "" ELSE cs[i] \o StrFrom(cs, i + 1)
Str(cs) == StrFrom(cs, 1)

(***************************************************************************)
(* The texts of the model                                                  *)
(***************************************************************************)
\* Sentences of the corpus.  S4 is sixteen "a" joined by "-": one word of
\* 31 tokens.
S1 == "We go to a zoo if i do so."
S2 == "We go to a zoo if i do it."
S4 == "a-a-a-a-a-a-a-a-a-a-a-a-a-a-a-a"
S5 == "We go to a zoo if i do so or no."
S6 == "I go to a zoo."
E1 == "Yo no se si el zoo es de la casa."
F1 == "Le zoo."

\* Sentences handed to the scorer alone: "zoo we" is in S7 as a string of
\* characters, and the word "zoos" of S8 holds "zoo".
S7 == "We do a zoo well."
S8 == "Zoos we do at a zoo."

\* A sentence that trails off in spaced dots: 36 words between spaces, 5
\* tokens.
S9 == "I go to a zoo . . . . . . . . . . . . . . . . . . . . . . . . . . . . . . ."

\* A sentence of ten tokens with a word of AVOID_WORDS_EN.
S10 == "We do not go to a zoo or to hell."

\* A sentence of two words, the first ending in the letter a.
S11 == "Panda zoo."

\* Phrases the callers look up.
P_zoo == "zoo"
P_we == "we"
P_zz_zoo == "zz zoo"
P_zoo_we == "zoo we"
P_a_zoo == "a zoo"
P_casa == "casa"
P_comma == ","
P_Zoo == "Zoo."

\* A text of one space.
Blank == " "

TextPool == {S1, S2, S4, S5, S6, E1, F1}
QueryPhrases == {P_zoo, P_we, P_zz_zoo, P_zoo_we, P_a_zoo, P_casa, P_comma, P_Zoo}

\* The characters of a string of the model.
Chars(s) ==
    CASE s = S1 ->
             <<"W","e"," ","g","o"," ","t","o"," ","a"," ","z","o","o"," ","i","f"," ","i",
               " ","d","o"," ","s","o",".">>
      [] s = S2 ->
             <<"W","e"," ","g","o"," ","t","o"," ","a"," ","z","o","o"," ","i","f"," ","i",
               " ","d","o"," ","i","t",".">>
      [] s = S4 ->
             <<"a","-","a","-","a","-","a","-","a","-","a","-","a","-","a","-","a","-","a",
               "-","a","-","a","-","a","-","a","-","a","-","a">>
      [] s = S5 ->
             <<"W","e"," ","g","o"," ","t","o"," ","a"," ","z","o","o"," ","i","f"," ","i",
               " ","d","o"," ","s","o"," ","o","r"," ","n","o",".">>
      [] s = S6 ->
             <<"I"," ","g","o"," ","t","o"," ","a"," ","z","o","o",".">>
      [] s = E1 ->
             <<"Y","o"," ","n","o"," ","s","e"," ","s","i"," ","e","l"," ","z","o","o"," ",
               "e","s"," ","d","e"," ","l","a"," ","c","a","s","a",".">>
      [] s = F1 ->
             <<"L","e"," ","z","o","o",".">>
      [] s = S7 ->
             <<"W","e"," ","d","o"," ","a"," ","z","o","o"," ","w","e","l","l",".">>
      [] s = S8 ->
             <<"Z","o","o","s"," ","w","e"," ","d","o"," ","a","t"," ","a"," ","z","o","o",
               ".">>
      [] s = S9 ->
             <<"I"," ","g","o"," ","t","o"," ","a"," ","z","o","o"," ","."," ","."," ",".",
               " ","."," ","."," ","."," ","."," ","."," ","."," ","."," ","."," ","."," ",
               "."," ","."," ","."," ","."," ","."," ","."," ","."," ","."," ","."," ",".",
               " ","."," ","."," ","."," ","."," ","."," ","."," ","."," ","."," ",".">>
      [] s = S10 ->
             <<"W","e"," ","d","o"," ","n","o","t"," ","g","o"," ","t","o"," ","a"," ","z",
               "o","o"," ","o","r"," ","t","o"," ","h","e","l","l",".">>
      [] s = S11 ->
             <<"P","a","n","d","a"," ","z","o","o",".">>
      [] s = P_zoo ->
             <<"z","o","o">>
      [] s = P_we ->
             <<"w","e">>
      [] s = P_zz_zoo ->
             <<"z","z"," ","z","o","o">>
      [] s = P_zoo_we ->
             <<"z","o","o"," ","w","e">>
      [] s = P_a_zoo ->
             <<"a"," ","z","o","o">>
      [] s = P_casa ->
             <<"c","a","s","a">>
      [] s = P_comma ->
             <<",">>
      [] s = P_Zoo ->
             <<"Z","o","o",".">>
      [] s = Blank ->
             <<" ">>

(***************************************************************************)
(* quick_tokenize                                                          *)
(***************************************************************************)
\* The string ',.;:!?()[]{}""\'' of the filter in quick_tokenize.
DROPPED_PUNCTUATION ==
    <<",", ".", ";", ":", "!", "?", "(", ")", "[", "]", "{", "}", "\"", "\"", "'">>

\* TOKEN_PATTERN.findall(text): scanning left to right, a maximal run of
\* [a-zA-Z0-9], or one character that is neither \w nor \s; any other
\* character is skipped.
RECURSIVE FindAllFrom(_, _, _)
FindAllFrom(s, i, run) ==
    IF i > Len(s)
    THEN IF run = <<>> THEN <<>> ELSE <<run>>
    ELSE IF IsAsciiAlnum(s[i])
         THEN FindAllFrom(s, i + 1, Append(run, s[i]))
         ELSE (IF run = <<>> THEN <<>> ELSE <<run>>)
              \o (IF ~IsWordChar(s[i]) /\ ~IsSpace(s[i]) THEN << <<s[i]>> >> ELSE <<>>)
              \o FindAllFrom(s, i + 1, <<>>)
TOKEN_PATTERN_findall(text) == FindAllFrom(text, 1, <<>>)

\* A filter that drops the empty token only, to see that the properties of
\* the tokens depend on the punctuation test.
KeepNonEmpty(stripped) == stripped # <<>>

\* The condition of the comprehension in quick_tokenize, on token.strip();
\* `in` on Python strings is the substring test.
KeepStripped(stripped) ==
    /\ stripped # <<>>
    /\ ~Contains(DROPPED_PUNCTUATION, stripped)
KeepToken(token) == KeepStripped(Strip(token))

\* [token.lower() for token in found if <kept>], as strings.
RECURSIVE LoweredKeptTokens(_, _)
LoweredKeptTokens(found, i) ==
    IF i > Len(found) THEN <<>>
    ELSE (IF KeepToken(found[i]) THEN <<Str(Lower(found[i]))>> ELSE <<>>)
         \o LoweredKeptTokens(found, i + 1)

\* The kept tokens of the pieces of a text, in order: a match of
\* TOKEN_PATTERN holds no whitespace, so it lies within one piece.
RECURSIVE TokensOfPieces(_, _)
TokensOfPieces(pieces, k) ==
    IF k > Len(pieces) THEN <<>>
    ELSE LoweredKeptTokens(TOKEN_PATTERN_findall(pieces[k]), 1)
         \o TokensOfPieces(pieces, k + 1)

\* quick_tokenize(text): the tokens, as strings.
quick_tokenize(text) == TokensOfPieces(Pieces(Chars(text)), 1)

(***************************************************************************)
(* Exact rationals                                                         *)
(***************************************************************************)
RECURSIVE Gcd(_, _)
Gcd(a, b) == IF b = 0 THEN a ELSE Gcd(b, a % b)
Abs(x) == IF x < 0 THEN -x ELSE x

\* n/d in lowest terms with a positive denominator (d # 0).
Lowest(n, d, g) == IF d < 0 THEN <<(-n) \div g, (-d) \div g>> ELSE <<n \div g, d \div g>>
R(n, d) == Lowest(n, d, Gcd(Abs(n), Abs(d)))
RAdd(x, y) == R(x[1] * y[2] + y[1] * x[2], x[2] * y[2])
RSub(x, y) == R(x[1] * y[2] - y[1] * x[2], x[2] * y[2])
RMul(x, y) == R(x[1] * y[1], x[2] * y[2])
RDiv(x, y) == R(x[1] * y[2], x[2] * y[1])
RLt(x, y) == x[1] * y[2] < y[1] * x[2]
RLe(x, y) == x[1] * y[2] <= y[1] * x[2]
RAbs(x) == <<Abs(x[1]), x[2]>>
RMax(x, y) == IF RLt(x, y) THEN y ELSE x
RMin(x, y) == IF RLt(y, x) THEN y ELSE x
Zero == <<0, 1>>
One == <<1, 1>>
Half == <<1, 2>>

(***************************************************************************)
(* gdex.py                                                                 *)
(***************************************************************************)
\* gdex.COMMON_WORDS_EN
COMMON_WORDS_EN == {
    "a", "about", "after", "all", "also", "an", "and", "any", "as", "at", "back", "be",
    "because", "but", "by", "can", "come", "could", "day", "do", "even", "first", "for",
    "from", "get", "give", "go", "good", "have", "he", "her", "him", "his", "how", "i", "if",
    "in", "into", "it", "its", "just", "know", "like", "look", "make", "me", "most", "my",
    "new", "no", "not", "now", "of", "on", "one", "only", "or", "other", "our", "out", "over",
    "person", "say", "see", "she", "so", "some", "take", "than", "that", "the", "their",
    "them", "then", "there", "these", "they", "think", "this", "time", "to", "two", "up", "us",
    "use", "want", "way", "we", "well", "what", "when", "which", "who", "will", "with", "work",
    "would", "year", "you", "your" }

\* gdex.COMMON_WORDS_ES
COMMON_WORDS_ES == {
    "a", "ahora", "alguno", "así", "año", "bien", "cada", "como", "con", "cosa", "creer",
    "cuando", "dar", "de", "deber", "decir", "dejar", "desde", "después", "donde", "dos",
    "día", "el", "ella", "en", "encontrar", "entonces", "entre", "ese", "eso", "estar", "este",
    "grande", "haber", "hablar", "hacer", "hasta", "hombre", "ir", "la", "le", "llegar",
    "llevar", "lo", "me", "menos", "mi", "mismo", "mucho", "muy", "más", "nada", "ni", "no",
    "nos", "nuestro", "nuevo", "o", "otro", "para", "parecer", "parte", "pasar", "pero",
    "poco", "poder", "poner", "por", "porque", "primero", "que", "quedar", "querer", "qué",
    "saber", "se", "seguir", "ser", "si", "siempre", "sin", "sobre", "su", "también", "tan",
    "tanto", "tener", "tiempo", "todo", "un", "uno", "ver", "vez", "vida", "y", "ya", "yo",
    "él" }

\* gdex.AVOID_WORDS_EN
AVOID_WORDS_EN == {
    "ass", "asshole", "bastard", "bitch", "crap", "cunt", "damn", "dick", "faggot", "fuck",
    "hell", "nigger", "piss", "shit" }

\* gdex.AVOID_WORDS_ES
AVOID_WORDS_ES == {
    "cabrón", "carajo", "chingar", "coño", "follar", "gilipollas", "hostia", "joder",
    "maricón", "mierda", "polla", "puta" }

\* gdex.PRONOUNS_EN
PRONOUNS_EN == {
    "he", "her", "his", "it", "she", "that", "their", "them", "these", "they", "this", "those" }

\* gdex.PRONOUNS_ES
PRONOUNS_ES == {
    "ella", "ellas", "ellos", "esta", "estas", "este", "estos", "la", "las", "lo", "los", "él" }

\* gdex.IDEAL_LENGTH_RANGE with the .get(..., IDEAL_LENGTH_RANGE['intermediate'])
\* default of GdexScorer.__init__.
IDEAL_LENGTH_RANGE(proficiency) ==
    CASE proficiency = "beginner" -> <<5, 10>>
      [] proficiency = "intermediate" -> <<7, 15>>
      [] proficiency = "advanced" -> <<10, 20>>
      [] OTHER -> <<7, 15>>

MAX_LENGTH == 30

\* Languages GdexScorer.__init__ accepts; any other raises ValueError.
ScorerLanguages == {"en", "es"}

\* GdexScorer(language, proficiency), language in ScorerLanguages.
GdexScorer(language, proficiency) ==
    [language |-> language,
     proficiency |-> proficiency,
     common_words |-> IF language = "en" THEN COMMON_WORDS_EN ELSE COMMON_WORDS_ES,
     avoid_words |-> IF language = "en" THEN AVOID_WORDS_EN ELSE AVOID_WORDS_ES,
     pronouns |-> IF language = "en" THEN PRONOUNS_EN ELSE PRONOUNS_ES,
     min_length |-> IDEAL_LENGTH_RANGE(proficiency)[1],
     max_length |-> IDEAL_LENGTH_RANGE(proficiency)[2]]

\* GdexScorer._tokenize: re.findall(r'\b\w+\b', text.lower()), the maximal
\* runs of \w characters.
RECURSIVE WordRunsFrom(_, _, _)
WordRunsFrom(s, i, run) ==
    IF i > Len(s)
    THEN IF run = <<>> THEN <<>> ELSE <<run>>
    ELSE IF IsWordChar(s[i])
         THEN WordRunsFrom(s, i + 1, Append(run, s[i]))
         ELSE (IF run = <<>> THEN <<>> ELSE <<run>>) \o WordRunsFrom(s, i + 1, <<>>)
GdexTokenize(text) == WordRunsFrom(Lower(text), 1, <<>>)

\* len([t for t in tokens if t in words])
CountIn(tokens, words) == Cardinality({i \in DOMAIN tokens : tokens[i] \in words})

\* A length score of two values, to see that the properties of the length
\* score depend on the decay outside the ideal range.
InsideOrHalf(token_count, mn, mx) ==
    IF mn <= token_count /\ token_count <= mx THEN One ELSE Half

\* The branches of _score_length on the token count and the ideal range.
LengthScore(token_count, mn, mx) ==
    IF mn <= token_count /\ token_count <= mx
    THEN LET mid_point == R(mn + mx, 2)
             distance_from_mid == RAbs(RSub(R(token_count, 1), mid_point))
             max_distance == R(mx - mn, 2)
         IN RSub(One, RMul(RDiv(distance_from_mid, max_distance), Half))
    ELSE IF token_count < mn
    THEN RMax(Zero, RMul(Half, R(token_count, mn)))
    ELSE IF token_count > MAX_LENGTH
    THEN Zero
    ELSE RMax(Zero, RMul(Half, RSub(One, R(token_count - mx, MAX_LENGTH - mx))))

_score_length(self, tokens) == LengthScore(Len(tokens), self.min_length, self.max_length)

\* 0-based index of the first sentence token that equals or contains the
\* target token, -1 when there is none (found_position is None).
RECURSIVE FoundPositionFrom(_, _, _)
FoundPositionFrom(sentence_tokens, target_token, i) ==
    IF i > Len(sentence_tokens) THEN -1
    ELSE IF \/ target_token = sentence_tokens[i]
            \/ Contains(sentence_tokens[i], target_token)
    THEN i - 1
    ELSE FoundPositionFrom(sentence_tokens, target_token, i + 1)
\* A search that finds every target token in the first sentence token, to
\* see that the score of a missing token depends on the search.
FoundInFirstToken(sentence_tokens, target_token) == 0

FoundPosition(sentence_tokens, target_token) ==
    FoundPositionFrom(sentence_tokens, target_token, 1)

\* token_positions of lines 265-277, with -1 for a token that is not found.
RECURSIVE TokenPositionsFrom(_, _, _)
TokenPositionsFrom(sentence_tokens, target_tokens, k) ==
    IF k > Len(target_tokens) THEN <<>>
    ELSE <<FoundPosition(sentence_tokens, target_tokens[k])>>
         \o TokenPositionsFrom(sentence_tokens, target_tokens, k + 1)

IsSortedAsc(s) == \A i \in 1..(Len(s) - 1) : s[i] <= s[i + 1]

RECURSIVE SumGaps(_, _)
SumGaps(positions, i) ==
    IF i >= Len(positions) THEN 0
    ELSE (positions[i + 1] - positions[i] - 1) + SumGaps(positions, i + 1)

\* Exceptions the source raises in place of a score: a division by the
\* length of an empty sentence, and token_positions[0] on an empty list.
\* Neither is a rational (the denominator is not positive).
ZeroDivisionError == <<0, 0>>
IndexError == <<0, -1>>
IsException(x) == x[2] <= 0
ExceptionName(x) == IF x = ZeroDivisionError THEN "ZeroDivisionError" ELSE "IndexError"

\* Lines 293-300: gap_score by the total gap.
GapScore(total_gap) ==
    IF total_gap = 0 THEN One
    ELSE IF total_gap = 1 THEN R(9, 10)
    ELSE IF total_gap <= 3 THEN R(8, 10)
    ELSE IF total_gap <= 6 THEN R(6, 10)
    ELSE IF total_gap <= 10 THEN R(4, 10)
    ELSE R(2, 10)

\* Lines 322-328: position_score of the multi-word branch.
MultiPositionScore(position_ratio) ==
    IF RLe(R(2, 10), position_ratio) /\ RLe(position_ratio, R(8, 10))
    THEN One
    ELSE IF RLt(position_ratio, R(2, 10))
    THEN RAdd(R(7, 10), RMul(RDiv(position_ratio, R(2, 10)), R(3, 10)))
    ELSE RAdd(R(7, 10), RMul(RDiv(RSub(One, position_ratio), R(2, 10)), R(3, 10)))

\* Lines 279-334, once every target token has its position.
OrderedTokensScore(token_positions, sentence_length) ==
    IF \E k \in DOMAIN token_positions : token_positions[k] = -1
    THEN R(1, 10)
    ELSE IF ~IsSortedAsc(token_positions)
    THEN R(2, 10)
    ELSE IF token_positions = <<>>
    THEN IndexError
    ELSE LET phrase_center ==
                 R(token_positions[1] + token_positions[Len(token_positions)], 2)
             position_ratio == IF sentence_length > 1
                               THEN RDiv(phrase_center, R(sentence_length - 1, 1))
                               ELSE Half
             final_score == RAdd(RMul(GapScore(SumGaps(token_positions, 1)), R(7, 10)),
                                 RMul(MultiPositionScore(position_ratio), R(3, 10)))
         IN RMin(One, final_score)

\* Lines 254-258: the score of an exact phrase match found at start_idx.
ExactMatchScore(position_ratio) ==
    IF RLe(R(2, 10), position_ratio) /\ RLe(position_ratio, R(8, 10))
    THEN One
    ELSE R(9, 10)

\* Lines 261-277 on the sentence's own tokens.
TokensInOrderScore(sentence_tokens, target_tokens) ==
    OrderedTokensScore(TokenPositionsFrom(sentence_tokens, target_tokens, 1),
                       Len(sentence_tokens))

\* The multi-word branch of _score_target_position (lines 250-334).
TargetPositionMulti(sentence, sentence_lower, target_lower, target_tokens) ==
    IF Contains(sentence_lower, target_lower)
    THEN IF Len(sentence_lower) = 0
         THEN ZeroDivisionError
         ELSE ExactMatchScore(R(Find(sentence_lower, target_lower), Len(sentence_lower)))
    ELSE TokensInOrderScore(GdexTokenize(sentence), target_tokens)

\* A score that does not look at the position, to see that the properties
\* of the single-word score depend on the bands.
AnyPositionScore(position_ratio) == One

\* Lines 243-248: the score of a single target word found at start_idx.
SinglePositionScore(position_ratio) ==
    IF RLe(R(3, 10), position_ratio) /\ RLe(position_ratio, R(7, 10))
    THEN One
    ELSE IF RLt(position_ratio, R(3, 10))
    THEN RAdd(Half, RMul(RDiv(position_ratio, R(3, 10)), Half))
    ELSE RAdd(Half, RMul(RDiv(RSub(One, position_ratio), R(3, 10)), Half))

\* Lines 229-334 on sentence.lower() and target_phrase.lower().split().
TargetPosition(sentence, sentence_lower, target_lower, target_tokens) ==
    IF Len(target_tokens) = 1
    THEN IF ~Contains(sentence_lower, target_tokens[1])
         THEN Zero
         ELSE SinglePositionScore(R(Find(sentence_lower, target_tokens[1]),
                                    Len(sentence_lower)))
    ELSE TargetPositionMulti(sentence, sentence_lower, target_lower, target_tokens)

_score_target_position(sentence, target_phrase) ==
    TargetPosition(sentence, Lower(sentence), Lower(target_phrase),
                   Split(Lower(target_phrase)))

\* ideal_ratio of _score_common_words.
IdealCommonRatio(proficiency) ==
    IF proficiency = "beginner" THEN R(9, 10)
    ELSE IF proficiency = "intermediate" THEN R(8, 10)
    ELSE R(7, 10)

CommonRatioScore(common_ratio, ideal_ratio) ==
    IF RLe(ideal_ratio, common_ratio) THEN One ELSE RDiv(common_ratio, ideal_ratio)

_score_common_words(self, tokens) ==
    IF tokens = <<>> THEN Zero
    ELSE CommonRatioScore(R(CountIn(tokens, self.common_words), Len(tokens)),
                          IdealCommonRatio(self.proficiency))

_score_avoid_words(self, tokens) ==
    IF \E i \in DOMAIN tokens : tokens[i] \in self.avoid_words THEN Zero ELSE One

PronounRatioScore(pronoun_ratio) ==
    IF RLt(R(3, 10), pronoun_ratio) THEN Half
    ELSE IF RLt(R(2, 10), pronoun_ratio) THEN R(75, 100)
    ELSE One

_score_pronouns(self, tokens) ==
    IF tokens = <<>> THEN Zero
    ELSE IF tokens[1] \in self.pronouns THEN Half
    ELSE PronounRatioScore(R(CountIn(tokens, self.pronouns), Len(tokens)))

_score_syntactic_completeness(sentence) ==
    IF sentence = <<>> THEN Zero
    ELSE LET starts_with_uppercase == IsUpper(sentence[1])
             ends_with_punctuation == sentence[Len(sentence)] \in {".", "?", "!"}
             sentence_markers == {i \in DOMAIN sentence : sentence[i] \in {".", "!", "?"}}
             is_single_sentence == Cardinality(sentence_markers) <= 1
             score == (IF starts_with_uppercase THEN 10 ELSE 7)
                      - (IF ends_with_punctuation THEN 0 ELSE 3)
                      - (IF is_single_sentence THEN 0 ELSE 4)
         IN RMax(Zero, R(score, 10))

ScoreKeys ==
    <<"length", "target_position", "common_words", "avoid_words", "pronouns", "syntactic">>

\* The weights of score_sentence, in hundredths.
Weights(proficiency) ==
    IF proficiency = "beginner"
    THEN [length |-> 25, target_position |-> 15, common_words |-> 30,
          avoid_words |-> 15, pronouns |-> 10, syntactic |-> 5]
    ELSE IF proficiency = "advanced"
    THEN [length |-> 15, target_position |-> 15, common_words |-> 15,
          avoid_words |-> 15, pronouns |-> 15, syntactic |-> 25]
    ELSE [length |-> 20, target_position |-> 15, common_words |-> 25,
          avoid_words |-> 15, pronouns |-> 10, syntactic |-> 15]

\* sum(scores[key] * weights[key] for key in scores)
RECURSIVE WeightedSum(_, _, _)
WeightedSum(scores, weights, k) ==
    IF k > Len(ScoreKeys) THEN Zero
    ELSE RAdd(RMul(scores[ScoreKeys[k]], R(weights[ScoreKeys[k]], 100)),
              WeightedSum(scores, weights, k + 1))

\* scores['total'] = total_score
WithTotal(scores, total_score) ==
    [length |-> scores.length,
     target_position |-> scores.target_position,
     common_words |-> scores.common_words,
     avoid_words |-> scores.avoid_words,
     pronouns |-> scores.pronouns,
     syntactic |-> scores.syntactic,
     total |-> total_score]

\* Lines 114-167 on the stripped sentence and the lowered target phrase.
ScoresOf(self, sentence, target_phrase, tokenized_sentence, target_position_score) ==
    IF IsException(target_position_score)
    THEN [error |-> ExceptionName(target_position_score)]
    ELSE LET Totalled(scores) ==
                 WithTotal(scores, WeightedSum(scores, Weights(self.proficiency), 1))
         IN Totalled([length |-> _score_length(self, tokenized_sentence),
                      target_position |-> target_position_score,
                      common_words |-> _score_common_words(self, tokenized_sentence),
                      avoid_words |-> _score_avoid_words(self, tokenized_sentence),
                      pronouns |-> _score_pronouns(self, tokenized_sentence),
                      syntactic |-> _score_syntactic_completeness(sentence)])

\* The scores dictionary, or [error |-> name] when the source raises.
NormalizedScores(self, sentence, target_phrase, tokenized_sentence) ==
    ScoresOf(self, sentence, target_phrase, tokenized_sentence,
             _score_target_position(sentence, target_phrase))

\* GdexScorer.score_sentence(sentence, target_phrase, tokenized_sentence); the
\* callers always pass the tokens.  The sentence and the phrase are read as
\* characters.
score_sentence(self, sentence_in, target_phrase_in, tokenized_sentence) ==
    NormalizedScores(self, Strip(Chars(sentence_in)), Lower(Chars(target_phrase_in)),
                     tokenized_sentence)

(***************************************************************************)
(* Inputs                                                                  *)
(***************************************************************************)
\* The processed book files of the books directory, in listing order
\* (db_integration.py reads id, title, language, category and sentences).
Books ==
    <<[source |-> "gutenberg_1", title |-> "Zoo Tales", language |-> "en",
       category |-> "fiction", sentences |-> <<S1, S5, S4, S2>>],
      [source |-> "gutenberg_2", title |-> "El zoo", language |-> "es",
       category |-> "fiction", sentences |-> <<E1>>],
      [source |-> "gutenberg_3", title |-> "Le zoo", language |-> "fr",
       category |-> "fiction", sentences |-> <<F1>>]>>

\* What the external generator may return: a sentence for a language.
GeneratedSentences == {[language |-> "en", sentence |-> S6]}

\* Proficiency arguments of the callers.
Proficiencies == {"beginner", "intermediate", "advanced"}

\* Language codes the callers pass.
Languages == {"en", "es", "fr"}

\* Largest number of generated sentences saved.
MaxGenerated == 1
\* Largest top_n the callers pass.
MaxTopN == 2
TopNs == 0..MaxTopN

\* The words searched through the service and the endpoint, and the calls:
\* the word alone, or the word with language, top_n and proficiency.
SearchWords == {P_zoo, P_casa}
SearchCalls ==
    {[word |-> word] : word \in SearchWords}
        \cup [word : SearchWords, language : Languages, top_n : TopNs,
              proficiency : Proficiencies]

VARIABLES
    texts_table,    \* rows of reverse_index_texts, in id order
    phrases_table,  \* rows of reverse_index_phrases, in id order
    files,          \* language -> content of sentence_index_<language>.pkl
    retriever,      \* sentence_service._sentence_retriever
    last,           \* the handler that ran last, its arguments and outcome
    threads         \* worker thread -> where it is inside build_sentence_index

vars == <<texts_table, phrases_table, files, retriever, last, threads>>

\* Python's None.
None == "None"
\* _sentence_retriever = None
NoRetriever == [user_proficiency |-> None]
HasRetriever == retriever.user_proficiency # None

(***************************************************************************)
(* Corpus database (db_models.py) and its writers                          *)
(***************************************************************************)
\* The Phrase rows of a book's sentences, with ids after the n rows present.
RECURSIVE BookPhrases(_, _, _, _)
BookPhrases(book, text_id, n, k) ==
    IF k > Len(book.sentences) THEN <<>>
    ELSE <<[id |-> n + k, text |-> book.sentences[k],
            language |-> book.language, text_id |-> text_id]>>
         \o BookPhrases(book, text_id, n, k + 1)

\* import_book_to_database: nothing changes when a Text with the book's
\* source exists; otherwise one Text row and one Phrase row per sentence.
ImportBook(db, book) ==
    IF \E i \in DOMAIN db.texts : db.texts[i].source = book.source
    THEN db
    ELSE [texts |-> Append(db.texts,
                       [id |-> Len(db.texts) + 1, title |-> book.title,
                        language |-> book.language, category |-> book.category,
                        source |-> book.source]),
          phrases |-> db.phrases
                      \o BookPhrases(book, Len(db.texts) + 1, Len(db.phrases), 1)]

RECURSIVE ImportBooks(_, _, _)
ImportBooks(db, books, k) ==
    IF k > Len(books) THEN db
    ELSE ImportBooks(ImportBook(db, books[k]), books, k + 1)

\* The Text rows of (source, language, title).
FoundTexts(db, language, source, title) ==
    {i \in DOMAIN db.texts :
        /\ db.texts[i].source = source
        /\ db.texts[i].language = language
        /\ db.texts[i].title = title}

\* DatabaseSaver.save_sentence: get or create the Text of (source, language,
\* title), then add the Phrase.
SaveSentenceInto(db, sentence, language, source, title, category, found) ==
    [texts |-> IF found # {} THEN db.texts
               ELSE Append(db.texts,
                        [id |-> Len(db.texts) + 1, title |-> title,
                         language |-> language, category |-> category,
                         source |-> source]),
     phrases |-> Append(db.phrases,
                    [id |-> Len(db.phrases) + 1, text |-> sentence,
                     language |-> language,
                     text_id |-> IF found # {}
                                 THEN db.texts[CHOOSE i \in found :
                                                  \A j \in found : i <= j].id
                                 ELSE Len(db.texts) + 1])]

SaveSentence(db, sentence, language, source, title, category) ==
    SaveSentenceInto(db, sentence, language, source, title, category,
                     FoundTexts(db, language, source, title))

(***************************************************************************)
(* SentenceRetriever.build_sentence_index                                  *)
(***************************************************************************)
MAX_SENTENCE_TOKENS == 30
\* The whitespace-word limit of the pre-filter.
PREFILTER_WORDS == 35

\* {} as returned by build_sentence_index when nothing is indexed.
EmptyDict == <<>>
IsEmptyDict(d) == DOMAIN d = {}

\* d[key] = value on a dictionary.
DictSet(d, key, value) == (key :> value) @@ d

\* d.get(key, set())
PostingsOf(token_to_phrases, token) ==
    IF token \in DOMAIN token_to_phrases THEN token_to_phrases[token] ELSE {}

\* select(Phrase).where(Phrase.language == language), in id order.
RECURSIVE SelectPhrases(_, _, _)
SelectPhrases(rows, language, k) ==
    IF k > Len(rows) THEN <<>>
    ELSE (IF rows[k].language = language THEN <<rows[k]>> ELSE <<>>)
         \o SelectPhrases(rows, language, k + 1)

\* The quick pre-filter: len(phrase.text.split()) <= 35.
PassesPrefilter(phrase) == Len(Split(Chars(phrase.text))) <= PREFILTER_WORDS

\* A cap that tests against the limit of the pre-filter, to see that the
\* properties of the index depend on the cap.
WithinPrefilterLimit(tokens) == Len(tokens) <= PREFILTER_WORDS

\* The exact cap: len(tokens) <= MAX_SENTENCE_TOKENS.
WithinTokenCap(tokens) == Len(tokens) <= MAX_SENTENCE_TOKENS

\* A position one past the phrase just appended, to see that the properties
\* of the index depend on the position.
PositionPastTheEnd(phrase_ids) == Len(phrase_ids)

\* The position stored for a phrase just appended: len(phrase_ids) - 1.
PostingPosition(phrase_ids) == Len(phrase_ids) - 1

\* for token in set(tokens): token_to_phrases[token].add(position), on a
\* defaultdict(set).  The postings do not depend on the order in which the
\* set of tokens is visited.
RECURSIVE AddPosting(_, _, _)
AddToken(token_to_phrases, token_set, position, token) ==
    AddPosting(DictSet(token_to_phrases, token,
                       PostingsOf(token_to_phrases, token) \cup {position}),
               token_set \ {token}, position)
AddPosting(token_to_phrases, token_set, position) ==
    IF token_set = {} THEN token_to_phrases
    ELSE AddToken(token_to_phrases, token_set, position,
                  CHOOSE token \in token_set : TRUE)

\* Lines 141-149: the phrase is kept.
KeepPhrase(acc, phrase, tokens, phrase_ids) ==
    [phrase_ids |-> phrase_ids,
     texts |-> Append(acc.texts, phrase.text),
     tokenized_texts |-> Append(acc.tokenized_texts, tokens),
     token_to_phrases |->
         AddPosting(acc.token_to_phrases, Range(tokens), PostingPosition(phrase_ids))]

\* Lines 136-149 on the tokens of a candidate phrase.
IndexTokens(acc, phrase, tokens) ==
    IF WithinTokenCap(tokens)
    THEN KeepPhrase(acc, phrase, tokens, Append(acc.phrase_ids, phrase.id))
    ELSE acc

\* One pass of the loop body of lines 136-149 over a candidate phrase.
IndexPhrase(acc, phrase) == IndexTokens(acc, phrase, quick_tokenize(phrase.text))

RECURSIVE IndexPhrases(_, _, _)
IndexPhrases(acc, phrases, k) ==
    IF k > Len(phrases) THEN acc
    ELSE IndexPhrases(
             IF PassesPrefilter(phrases[k]) THEN IndexPhrase(acc, phrases[k]) ELSE acc,
             phrases, k + 1)

\* The row of the join for a phrase id: the phrase's Text.
TextOfPhrase(db, phrase_id) ==
    db.texts[CHOOSE j \in DOMAIN db.texts :
                 \E i \in DOMAIN db.phrases :
                     /\ db.phrases[i].id = phrase_id
                     /\ db.texts[j].id = db.phrases[i].text_id]

MetadataOf(text) == [text_id |-> text.id, title |-> text.title, category |-> text.category]

\* select(Phrase, Text).join(Text, Phrase.text_id == Text.id)
\*     .where(Phrase.id.in_(batch_ids)): phrase id -> metadata.
RECURSIVE PhraseMetadata(_, _, _)
PhraseMetadata(db, phrase_ids, k) ==
    IF k > Len(phrase_ids) THEN <<>>
    ELSE DictSet(PhraseMetadata(db, phrase_ids, k + 1), phrase_ids[k],
                 MetadataOf(TextOfPhrase(db, phrase_ids[k])))

\* Lines 151-187 on the accumulated lists.
IndexDataOf(db, acc) ==
    IF acc.tokenized_texts = <<>> THEN EmptyDict
    ELSE [phrase_ids |-> acc.phrase_ids,
          texts |-> acc.texts,
          tokenized_texts |-> acc.tokenized_texts,
          token_to_phrases |-> acc.token_to_phrases,
          metadata |-> PhraseMetadata(db, acc.phrase_ids, 1)]

\* Lines 112-187 on the selected phrases.
IndexOfPhrases(db, phrases) ==
    IF phrases = <<>> THEN EmptyDict
    ELSE IndexDataOf(db,
             IndexPhrases([phrase_ids |-> <<>>, texts |-> <<>>,
                           tokenized_texts |-> <<>>, token_to_phrases |-> <<>>],
                          phrases, 1))

\* The dictionary build_sentence_index returns for the database db: {} when
\* the language has no phrase or none is kept, the index otherwise.
BuiltIndex(db, language) == IndexOfPhrases(db, SelectPhrases(db.phrases, language, 1))

\* The content of an index file that pickle.load cannot read: a file that a
\* dump which did not end left truncated.
Corrupt == [truncated |-> TRUE]

\* A load with one try around the whole loop, to see that the properties of
\* loading depend on the try inside the loop: nothing after the first file
\* that cannot be read is loaded.
LoadUntilFirstError(fs) ==
    IF "en" \in DOMAIN fs /\ fs["en"] = Corrupt THEN <<>>
    ELSE [l \in {l \in DOMAIN fs \cap {"en", "es"} : fs[l] # Corrupt} |-> fs[l]]

\* SentenceRetriever._load_existing_indexes: the files of "en" and "es" that
\* exist are unpickled into index_data; a file that cannot be read is logged
\* and left out.
LoadExistingIndexes(fs) ==
    [l \in {l \in DOMAIN fs \cap {"en", "es"} : fs[l] # Corrupt} |-> fs[l]]

\* SentenceRetriever(db_path, user_proficiency)
NewSentenceRetriever(fs, user_proficiency) ==
    [user_proficiency |-> user_proficiency,
     index_data |-> LoadExistingIndexes(fs)]

\* self.gdex_scorers[language]
gdex_scorer(self, language) == GdexScorer(language, self.user_proficiency)

(***************************************************************************)
(* SentenceRetriever.get_best_examples                                     *)
(***************************************************************************)
\* The acceptance threshold of line 260, 0.8.
ACCEPT_THRESHOLD == R(8, 10)

\* One pass of the loop body of lines 234-239.
MatchStep(matching_phrases, phrase_indices) ==
    IF matching_phrases = {} THEN phrase_indices
    ELSE matching_phrases \cap phrase_indices

RECURSIVE MatchingPhrases(_, _, _, _)
MatchingPhrases(matching_phrases, token_to_phrases, query_tokens, k) ==
    IF k > Len(query_tokens) THEN matching_phrases
    ELSE MatchingPhrases(
             MatchStep(matching_phrases, PostingsOf(token_to_phrases, query_tokens[k])),
             token_to_phrases, query_tokens, k + 1)

\* The candidate positions of a query (lines 226-239).
Candidates(index_data, phrase) ==
    MatchingPhrases({}, index_data.token_to_phrases, quick_tokenize(phrase), 1)

\* The orders in which `for idx in matching_phrases` may visit a set: Python
\* does not define the iteration order of a set.  CPython visits a set of
\* small integers in the order of their hash slots, which is not the
\* ascending order once a position reaches the table size: the postings
\* {1, 8} are visited as 8, 1.
SetIterationOrders(S) ==
    {order \in [1..Cardinality(S) -> S] : \A i, j \in DOMAIN order : i # j => order[i] # order[j]}

\* An acceptance test with the threshold at 0.7, to see that the properties
\* of the results depend on the threshold.
BelowLowerThreshold(combined_score) == RLt(combined_score, R(7, 10))

\* Whether a scored candidate is dropped (line 260: combined_score < 0.8).
BelowThreshold(combined_score) == RLt(combined_score, ACCEPT_THRESHOLD)

\* index_data['metadata'].get(phrase_id, {}) and its .get(...) reads.
MetadataGet(metadata, phrase_id) ==
    IF phrase_id \in DOMAIN metadata THEN metadata[phrase_id]
    ELSE [text_id |-> None, title |-> None, category |-> None]

\* The dictionary appended to results for position idx.  The field idx is
\* the loop variable, kept beside the returned fields to state properties.
EntryOf(text, scores, metadata, idx) ==
    [sentence |-> text,
     score |-> scores.total,
     text_id |-> metadata.text_id,
     title |-> metadata.title,
     category |-> metadata.category,
     detailed_scores |->
         [gdex_length |-> scores.length,
          gdex_target_position |-> scores.target_position,
          gdex_common_words |-> scores.common_words,
          gdex_avoid_words |-> scores.avoid_words,
          gdex_pronouns |-> scores.pronouns,
          gdex_syntactic |-> scores.syntactic],
     idx |-> idx]

ResultEntry(index_data, idx, scores) ==
    EntryOf(index_data.texts[idx + 1], scores,
            MetadataGet(index_data.metadata, index_data.phrase_ids[idx + 1]), idx)

\* A sort that leaves the results in the order of the visit, to see that the
\* properties of the results depend on the sort.
AppendInVisitOrder(sorted, entry) == Append(sorted, entry)

\* sorted(results, key=score, reverse=True) is stable: an entry goes behind
\* every entry whose score is at least its own.
RECURSIVE InsertByScore(_, _)
InsertByScore(sorted, entry) ==
    IF sorted = <<>> THEN <<entry>>
    ELSE IF RLt(Head(sorted).score, entry.score)
         THEN <<entry>> \o sorted
         ELSE <<Head(sorted)>> \o InsertByScore(Tail(sorted), entry)

RECURSIVE SortedByScore(_, _, _)
SortedByScore(sorted, results, k) ==
    IF k > Len(results) THEN sorted
    ELSE SortedByScore(InsertByScore(sorted, results[k]), results, k + 1)

\* results[:top_n], top_n >= 0
TopSlice(results, top_n) ==
    SubSeq(results, 1, IF top_n < Len(results) THEN top_n ELSE Len(results))

\* gdex_scorer.score_sentence(text, phrase, tokens) of line 258 for every
\* candidate position: what a candidate scores does not depend on when the
\* loop visits it.
RECURSIVE CandidateScores(_, _, _, _, _)
CandidateScores(index_data, scorer, phrase, matching_phrases, idx) ==
    IF idx >= Len(index_data.texts) THEN <<>>
    ELSE IF idx \in matching_phrases
    THEN DictSet(CandidateScores(index_data, scorer, phrase, matching_phrases, idx + 1),
                 idx,
                 score_sentence(scorer, index_data.texts[idx + 1], phrase,
                                index_data.tokenized_texts[idx + 1]))
    ELSE CandidateScores(index_data, scorer, phrase, matching_phrases, idx + 1)

\* The loop of lines 252-277 over the candidates in the given order.
RECURSIVE ScoredResults(_, _, _, _)
ScoredResults(index_data, scores_of, order, k) ==
    IF k > Len(order) THEN <<>>
    ELSE (IF BelowThreshold(scores_of[order[k]].total) THEN <<>>
          ELSE <<ResultEntry(index_data, order[k], scores_of[order[k]])>>)
         \o ScoredResults(index_data, scores_of, order, k + 1)

\* Lines 250-281 for one iteration order.
TopResults(index_data, scores_of, top_n, order) ==
    TopSlice(SortedByScore(<<>>, ScoredResults(index_data, scores_of, order, 1), 1), top_n)

\* What a call returns: a list of results, or an exception.
Returned(results) == [raised |-> None, results |-> results]
Raised(exception) == [raised |-> exception, results |-> <<>>]

\* Lines 250-281 for every iteration order of the candidate set.
RankedOutcomes(index_data, scores_of, top_n, matching_phrases) ==
    {Returned(TopResults(index_data, scores_of, top_n, order)) :
        order \in SetIterationOrders(matching_phrases)}

\* Lines 241-281 on the candidate set.
OutcomesOfCandidates(self, index_data, phrase, language, top_n, matching_phrases) ==
    IF matching_phrases = {}
    THEN {Returned(<<>>)}
    ELSE IF language \notin ScorerLanguages
    THEN {Raised("ValueError")}
    ELSE RankedOutcomes(index_data,
             CandidateScores(index_data, gdex_scorer(self, language), phrase,
                             matching_phrases, 0),
             top_n, matching_phrases)

\* Lines 223-281 on the language's index.
OutcomesOnIndex(self, index_data, phrase, language, top_n) ==
    OutcomesOfCandidates(self, index_data, phrase, language, top_n,
                         Candidates(index_data, phrase))

\* get_best_examples without the test of lines 219-221: the lookup of line
\* 224 raises KeyError for a language that has no index.
get_best_examples_unchecked(self, phrase, language, top_n) ==
    IF language \notin DOMAIN self.index_data
    THEN {Raised("KeyError")}
    ELSE OutcomesOnIndex(self, self.index_data[language], phrase, language, top_n)

\* get_best_examples(phrase, language, top_n): the outcomes the call can
\* have, one for each order in which the candidate set may be iterated.
get_best_examples(self, phrase, language, top_n) ==
    IF language \notin DOMAIN self.index_data
    THEN {Returned(<<>>)}
    ELSE OutcomesOnIndex(self, self.index_data[language], phrase, language, top_n)

(***************************************************************************)
(* sentence_service.py and api/sentence.py                                 *)
(***************************************************************************)
\* retriever.get_best_examples(**kwargs): the parameters besides self are
\* phrase, language and top_n (line 201 of sentence_retriever.py); a keyword
\* that is not a parameter is a TypeError, raised before the body runs.
CallGetBestExamples(self, kwargs) ==
    IF DOMAIN kwargs \subseteq {"phrase", "language", "top_n"}
    THEN get_best_examples(self, kwargs.phrase, kwargs.language, kwargs.top_n)
    ELSE {Raised("TypeError")}

\* The keyword arguments of the call of lines 85-90.
SearchKeywords(word, language, top_n) ==
    [phrase |-> word, language |-> language, top_n |-> top_n, use_gdex |-> TRUE]

\* str(value) of a row id or of None.
RECURSIVE str(_)
str(value) ==
    IF value = None THEN "None"
    ELSE IF value < 10
         THEN <<"0", "1", "2", "3", "4", "5", "6", "7", "8", "9">>[value + 1]
         ELSE str(value \div 10) \o str(value % 10)

\* The dictionary of lines 95-104 for one example.
FormattedResult(ex) ==
    [id |-> str(ex.text_id),
     sentence |-> ex.sentence,
     score |-> ex.score,
     title |-> ex.title,
     category |-> ex.category,
     meta |-> <<>>]

RECURSIVE FormattedResults(_, _)
FormattedResults(examples, k) ==
    IF k > Len(examples) THEN <<>>
    ELSE <<FormattedResult(examples[k])>> \o FormattedResults(examples, k + 1)

\* raise HTTPException(status_code, detail): detail is the kind of the
\* message.
HTTPException(status_code, detail) ==
    [raised |-> "HTTPException", status_code |-> status_code,
     detail |-> detail, results |-> <<>>]

\* Lines 92-113: the examples are formatted; whatever the try block raised
\* becomes HTTPException 500.
SearchOutcome(out) ==
    IF out.raised # None
    THEN HTTPException(500, "Error searching for sentences: " \o out.raised)
    ELSE [raised |-> None, status_code |-> None, detail |-> None,
          results |-> FormattedResults(out.results, 1)]

\* search_for_sentences(session, word, language, top_n, proficiency) with
\* the retriever get_sentence_retriever(proficiency) returned: the outcomes
\* the call can have.
search_for_sentences(self, word, language, top_n) ==
    {SearchOutcome(out) :
        out \in CallGetBestExamples(self, SearchKeywords(word, language, top_n))}

\* Lines 31-48 of get_sentences_for_word: an HTTPException is re-raised, an
\* empty list is HTTPException 404, the list is the body of the response.
EndpointOutcome(sentences) ==
    IF sentences.raised # None THEN sentences
    ELSE IF sentences.results = <<>>
         THEN HTTPException(404, "No sentences found for this word")
         ELSE sentences

\* GET /api/coach/index/words/{word}: the outcomes of the request.
get_sentences_for_word(self, word, language, top_n) ==
    {EndpointOutcome(sentences) :
        sentences \in search_for_sentences(self, word, language, top_n)}

(***************************************************************************)
(* SentenceRetriever._score_word_position                                  *)
(***************************************************************************)
\* pos / (sentence_length - 1) if sentence_length > 1 else 0.5
NormalizedPosition(position, sentence_length) ==
    IF sentence_length > 1 THEN RDiv(position, R(sentence_length - 1, 1)) ELSE Half

\* 1.0 - abs(normalized_pos - 0.5) * 2
MiddleScore(normalized_pos) ==
    RSub(One, RMul(RAbs(RSub(normalized_pos, Half)), R(2, 1)))

\* Lines 301-307: the words before the first occurrence of the phrase in the
\* lowered sentence, plus half the words of the phrase.
PhraseMiddle(sentence_lower, phrase_lower, start_idx) ==
    RAdd(R(Len(Split(SubSeq(sentence_lower, 1, start_idx))), 1),
         R(Len(Split(phrase_lower)), 2))

\* Lines 298-318: a phrase of two words or more.
PhrasePositionScore(sentence_lower, words, phrase_lower) ==
    IF Contains(sentence_lower, phrase_lower)
    THEN MiddleScore(
             NormalizedPosition(
                 PhraseMiddle(sentence_lower, phrase_lower,
                              Find(sentence_lower, phrase_lower)),
                 Len(words)))
    ELSE Half

\* Lines 322-340: position_scores for the words that hold the phrase.
WordPositionScores(words, phrase_lower) ==
    {MiddleScore(NormalizedPosition(R(i - 1, 1), Len(words))) :
        i \in {j \in DOMAIN words : Contains(words[j], phrase_lower)}}

\* Lines 320-343: a phrase of one word or none.
WordPositionScore(position_scores) ==
    IF position_scores = {} THEN Zero
    ELSE CHOOSE best \in position_scores : \A other \in position_scores : RLe(other, best)

\* Lines 294-343 on the lowered sentence and phrase.
ScoreWordPositionOn(sentence_lower, words, phrase_lower) ==
    IF Len(Split(phrase_lower)) > 1
    THEN PhrasePositionScore(sentence_lower, words, phrase_lower)
    ELSE WordPositionScore(WordPositionScores(words, phrase_lower))

\* retriever._score_word_position(sentence, phrase)
score_word_position(sentence, phrase) ==
    ScoreWordPositionOn(Lower(Chars(sentence)), Split(Lower(Chars(sentence))),
                        Lower(Chars(phrase)))

(***************************************************************************)
(* The handlers                                                            *)
(***************************************************************************)
DB == [texts |-> texts_table, phrases |-> phrases_table]

Idle == [op |-> "idle"]

\* The worker threads of the server process that serve requests.
Threads == {"worker_1", "worker_2"}
\* A thread that is not inside build_sentence_index.
IdleThread == [pc |-> "idle"]

Init ==
    /\ texts_table = <<>>
    /\ phrases_table = <<>>
    /\ files = <<>>
    /\ retriever = NoRetriever
    /\ last = Idle
    /\ threads = [t \in Threads |-> IdleThread]

\* Lines 189-197 of build_sentence_index on the file system: the index is
\* dumped unless the build returned {} before.
SaveBuilt(fs, language, built) ==
    IF IsEmptyDict(built) THEN fs ELSE DictSet(fs, language, built)

\* build_gdex_index: a retriever of its own builds "en" and "es" and saves
\* each index; a language whose spaCy model fails to load is skipped.
RECURSIVE BuildGdexIndex(_, _, _, _, _)
BuildGdexIndex(fs, db, languages, spacy_ok, k) ==
    IF k > Len(languages) THEN fs
    ELSE BuildGdexIndex(
             IF languages[k] \in spacy_ok
             THEN SaveBuilt(fs, languages[k], BuiltIndex(db, languages[k]))
             ELSE fs,
             db, languages, spacy_ok, k + 1)

\* The database and the index files after import_all_books.
Imported(db, spacy_ok) ==
    /\ texts_table' = db.texts
    /\ phrases_table' = db.phrases
    /\ files' = BuildGdexIndex(files, db, <<"en", "es">>, spacy_ok, 1)

\* db_integration.import_all_books: import the books of the directory, then
\* build_gdex_index; spaCy loads the models of the languages in spacy_ok.
ImportAllBooks(spacy_ok) ==
    /\ last = Idle
    /\ Imported(ImportBooks(DB, Books, 1), spacy_ok)
    /\ last' = [op |-> "import_all_books", spacy_ok |-> spacy_ok]
    /\ UNCHANGED <<retriever, threads>>

\* A get_sentence_retriever without the test of line 39: every call
\* constructs a retriever for its own proficiency.
ConstructedAtEveryGet(proficiency) == NewSentenceRetriever(files, proficiency)

\* sentence_service.get_sentence_retriever(proficiency); the database file
\* exists.
SingletonAfterGet(proficiency) ==
    IF HasRetriever THEN retriever ELSE NewSentenceRetriever(files, proficiency)

GetSentenceRetriever(proficiency) ==
    /\ last = Idle
    /\ retriever' = SingletonAfterGet(proficiency)
    /\ last' = [op |-> "get_sentence_retriever", proficiency |-> proficiency]
    /\ UNCHANGED <<texts_table, phrases_table, files, threads>>

\* Lines 189-199 of build_sentence_index on the singleton.
Built(language, built) ==
    /\ files' = SaveBuilt(files, language, built)
    /\ retriever' = IF IsEmptyDict(built) THEN retriever
                    ELSE [retriever EXCEPT !.index_data = DictSet(@, language, built)]
    /\ last' = [op |-> "build_sentence_index", language |-> language,
                result |-> built]

\* retriever.build_sentence_index(language) on the singleton.
BuildSentenceIndex(language) ==
    /\ last = Idle
    /\ HasRetriever
    /\ Built(language, BuiltIndex(DB, language))
    /\ UNCHANGED <<texts_table, phrases_table, threads>>

\* The caller gets one of the outcomes of the call.
Answered(phrase, language, top_n, outcomes) ==
    \E out \in outcomes :
        last' = [op |-> "get_best_examples", phrase |-> phrase,
                 language |-> language, top_n |-> top_n,
                 raised |-> out.raised, results |-> out.results]

\* retriever.get_best_examples(phrase, language, top_n) on the singleton.
GetBestExamples(phrase, language, top_n) ==
    /\ last = Idle
    /\ HasRetriever
    /\ Answered(phrase, language, top_n,
                get_best_examples(retriever, phrase, language, top_n))
    /\ UNCHANGED <<texts_table, phrases_table, files, retriever, threads>>

\* The arguments of a call of search_for_sentences or of a request, with
\* the defaults of lines 63-65 of the service (and 13-15 of the endpoint)
\* for those left out.
SearchArguments(args) ==
    [word |-> args.word,
     language |-> IF "language" \in DOMAIN args THEN args.language ELSE "en",
     top_n |-> IF "top_n" \in DOMAIN args THEN args.top_n ELSE 5,
     proficiency |-> IF "proficiency" \in DOMAIN args THEN args.proficiency
                     ELSE "intermediate"]

\* The caller gets one of the outcomes of the search.
Searched(op, args, a, called_with, outcomes) ==
    \E out \in outcomes :
        last' = [op |-> op, args |-> args, word |-> a.word, language |-> a.language,
                 top_n |-> a.top_n, proficiency |-> a.proficiency,
                 called_with |-> called_with,
                 raised |-> out.raised, status_code |-> out.status_code,
                 detail |-> out.detail, results |-> out.results]

\* sentence_service.search_for_sentences(session, **args); the database
\* file exists.
SearchForSentences(args) ==
    /\ last = Idle
    /\ retriever' = SingletonAfterGet(SearchArguments(args).proficiency)
    /\ Searched("search_for_sentences", args, SearchArguments(args),
                SearchKeywords(SearchArguments(args).word,
                               SearchArguments(args).language,
                               SearchArguments(args).top_n),
                search_for_sentences(SingletonAfterGet(SearchArguments(args).proficiency),
                                     SearchArguments(args).word,
                                     SearchArguments(args).language,
                                     SearchArguments(args).top_n))
    /\ UNCHANGED <<texts_table, phrases_table, files, threads>>

\* GET /api/coach/index/words/{word}?language=&top_n=&proficiency=
GetSentencesForWord(args) ==
    /\ last = Idle
    /\ retriever' = SingletonAfterGet(SearchArguments(args).proficiency)
    /\ Searched("get_sentences_for_word", args, SearchArguments(args),
                SearchKeywords(SearchArguments(args).word,
                               SearchArguments(args).language,
                               SearchArguments(args).top_n),
                get_sentences_for_word(SingletonAfterGet(SearchArguments(args).proficiency),
                                       SearchArguments(args).word,
                                       SearchArguments(args).language,
                                       SearchArguments(args).top_n))
    /\ UNCHANGED <<texts_table, phrases_table, files, threads>>

\* Rows of the phrases table saved by save_sentence(source="ChatGpt").
GeneratedPhraseIds ==
    {phrases_table[i].id : i \in
        {i \in DOMAIN phrases_table :
            \E j \in DOMAIN texts_table :
                /\ texts_table[j].id = phrases_table[i].text_id
                /\ texts_table[j].source = "ChatGpt"}}

\* The database after lines 82-99 of the phrase service.
Saved(db) ==
    /\ texts_table' = db.texts
    /\ phrases_table' = db.phrases

\* phrase_service.get_phrase_with_example_and_translation with a session: the
\* search for an existing sentence raises (search_for_sentences is called
\* without its session argument) and is logged, a sentence is generated and
\* saved, and add_phrase_to_index, which SentenceRetriever does not define,
\* raises AttributeError on the singleton inside the try of lines 84-105.
GetPhraseWithExampleAndTranslation(phrase, proficiency, generated) ==
    /\ last = Idle
    /\ Cardinality(GeneratedPhraseIds) < MaxGenerated
    /\ Saved(SaveSentence(DB, generated.sentence, generated.language, "ChatGpt",
                          IF generated.language = "en" THEN "Generated Examples - EN"
                          ELSE "Generated Examples - ES",
                          "generated"))
    /\ retriever' = SingletonAfterGet(proficiency)
    /\ last' = [op |-> "get_phrase_with_example_and_translation",
                phrase |-> phrase, language |-> generated.language,
                example_phrase |-> generated.sentence,
                phrase_id |-> Len(phrases_table) + 1]
    /\ UNCHANGED <<files, threads>>

\* The server process ends; the module global is None in the next process.
Restart ==
    /\ last = Idle
    /\ HasRetriever
    /\ retriever' = NoRetriever
    /\ last' = [op |-> "restart"]
    /\ UNCHANGED <<texts_table, phrases_table, files, threads>>

\* The caller has taken the outcome of the handler that ran last.
Return ==
    /\ last # Idle
    /\ last' = Idle
    /\ UNCHANGED <<texts_table, phrases_table, files, retriever, threads>>

Next ==
    \/ \E spacy_ok \in SUBSET {"en", "es"} : ImportAllBooks(spacy_ok)
    \/ \E proficiency \in Proficiencies : GetSentenceRetriever(proficiency)
    \/ \E language \in Languages : BuildSentenceIndex(language)
    \/ \E phrase \in QueryPhrases, language \in Languages, top_n \in TopNs :
           GetBestExamples(phrase, language, top_n)
    \/ \E phrase \in QueryPhrases, proficiency \in Proficiencies,
          generated \in GeneratedSentences :
           GetPhraseWithExampleAndTranslation(phrase, proficiency, generated)
    \/ \E args \in SearchCalls : SearchForSentences(args)
    \/ \E args \in SearchCalls : GetSentencesForWord(args)
    \/ Restart
    \/ Return

Spec == Init /\ [][Next]_vars

(***************************************************************************)
(* The server on a database other than the one the index files came from   *)
(***************************************************************************)
\* The index files are in the fixed directory INDEX_DIR (line 28 of
\* sentence_retriever.py) whatever the database: import_all_books(db_path,
\* ...) writes them for the database of its --db-path argument, and the
\* server opens the database SENTENCE_DB_PATH names (sentence_service.py:21).

\* A book whose only sentence is over the token cap.
LongBook ==
    [source |-> "gutenberg_4", title |-> "A", language |-> "en",
     category |-> "fiction", sentences |-> <<S4>>]

\* A book with a sentence that trails off in spaced dots and a sentence
\* with a word of AVOID_WORDS_EN.
RoughBook ==
    [source |-> "gutenberg_5", title |-> "Dots", language |-> "en",
     category |-> "fiction", sentences |-> <<S6, S9, S10>>]

EmptyDatabase == [texts |-> <<>>, phrases |-> <<>>]

\* The databases of the server: a new one, one that holds LongBook alone,
\* one that holds RoughBook alone, and the one of the importer.
ServerDatabases ==
    {EmptyDatabase, ImportBook(EmptyDatabase, LongBook),
     ImportBook(EmptyDatabase, RoughBook),
     ImportBooks(EmptyDatabase, Books, 1)}

\* The index files when the dumps of the languages in truncated did not end
\* (lines 190-192 of sentence_retriever.py open the file for writing, which
\* empties it, and then write).
TruncatedFiles(fs, truncated) ==
    [l \in DOMAIN fs |-> IF l \in truncated THEN Corrupt ELSE fs[l]]

\* import_all_books has run on its database, some of its dumps may not have
\* ended, and the server process starts on a database of its own.
InitServer ==
    /\ \E spacy_ok \in SUBSET {"en", "es"} :
           \E truncated \in SUBSET {"en", "es"} :
               files = TruncatedFiles(
                           BuildGdexIndex(<<>>, ImportBooks(EmptyDatabase, Books, 1),
                                          <<"en", "es">>, spacy_ok, 1),
                           truncated)
    /\ \E db \in ServerDatabases :
           /\ texts_table = db.texts
           /\ phrases_table = db.phrases
    /\ retriever = NoRetriever
    /\ last = Idle
    /\ threads = [t \in Threads |-> IdleThread]

NextServer ==
    \/ \E spacy_ok \in SUBSET {"en", "es"} : ImportAllBooks(spacy_ok)
    \/ \E proficiency \in Proficiencies : GetSentenceRetriever(proficiency)
    \/ \E language \in Languages : BuildSentenceIndex(language)
    \/ \E phrase \in QueryPhrases, language \in Languages, top_n \in TopNs :
           GetBestExamples(phrase, language, top_n)
    \/ Restart
    \/ Return

SpecServer == InitServer /\ [][NextServer]_vars

(***************************************************************************)
(* build_sentence_index and get_best_examples on threads of the server     *)
(***************************************************************************)
\* The source takes no lock in build_sentence_index or around the singleton,
\* so a thread can be preempted between the query of lines 112-178, the
\* pickle.dump of lines 189-192 and the assignment of line 197.

\* The server is up on the imported corpus: import_all_books has run with
\* every book and the singleton has been created from the saved files.
InitConc ==
    LET db == ImportBooks([texts |-> <<>>, phrases |-> <<>>], Books, 1)
        fs == BuildGdexIndex(<<>>, db, <<"en", "es">>, {"en", "es"}, 1)
    IN /\ texts_table = db.texts
       /\ phrases_table = db.phrases
       /\ files = fs
       /\ retriever = NewSentenceRetriever(fs, "intermediate")
       /\ last = Idle
       /\ threads = [t \in Threads |-> IdleThread]

\* Lines 112-187: the thread reads the phrases and builds its index_data;
\* with nothing to index it returns {} at once.
ReadBy(t, language, built) ==
    threads' = [threads EXCEPT ![t] =
                   IF IsEmptyDict(built) THEN IdleThread
                   ELSE [pc |-> "dump", language |-> language, index_data |-> built]]

BuildRead(t, language) ==
    /\ threads[t].pc = "idle"
    /\ ReadBy(t, language, BuiltIndex(DB, language))
    /\ UNCHANGED <<texts_table, phrases_table, files, retriever, last>>

\* Lines 189-192: pickle.dump(index_data, f).
BuildDump(t) ==
    /\ threads[t].pc = "dump"
    /\ files' = DictSet(files, threads[t].language, threads[t].index_data)
    /\ threads' = [threads EXCEPT ![t].pc = "assign"]
    /\ UNCHANGED <<texts_table, phrases_table, retriever, last>>

\* Line 197: self.index_data[language] = index_data, and the return.
BuildAssign(t) ==
    /\ threads[t].pc = "assign"
    /\ retriever' = [retriever EXCEPT
                        !.index_data = DictSet(@, threads[t].language,
                                               threads[t].index_data)]
    /\ threads' = [threads EXCEPT ![t] = IdleThread]
    /\ UNCHANGED <<texts_table, phrases_table, files, last>>

\* Lines 219-239 of get_best_examples on a thread: a language without an
\* index is answered at once; otherwise the thread takes the index object of
\* the language (line 224) and finds the candidates in it.
QueryRead(t, phrase, language, top_n) ==
    /\ threads[t].pc = "idle"
    /\ threads' = [threads EXCEPT ![t] =
                       IF language \notin DOMAIN retriever.index_data
                       THEN [pc |-> "answered", phrase |-> phrase,
                             language |-> language, top_n |-> top_n,
                             index_data |-> EmptyDict,
                             raised |-> None, results |-> <<>>]
                       ELSE [pc |-> "score", phrase |-> phrase,
                             language |-> language, top_n |-> top_n,
                             index_data |-> retriever.index_data[language],
                             matching_phrases |->
                                 Candidates(retriever.index_data[language], phrase)]]
    /\ UNCHANGED <<texts_table, phrases_table, files, retriever, last>>

\* A loop of lines 250-277 that looks the index of the language up in
\* self.index_data again, to see that the properties of a query that runs
\* beside a build depend on the single read of line 224.
IndexReadAgain(t) == retriever.index_data[threads[t].language]

\* The local variable index_data of a query thread, which lines 252-264
\* read.
IndexOfQuery(t) == threads[t].index_data

\* Lines 241-281 on the thread: the candidates are scored on the texts,
\* tokens and metadata of the thread's index object.
QueryScore(t) ==
    /\ threads[t].pc = "score"
    /\ \E out \in OutcomesOfCandidates(retriever, IndexOfQuery(t), threads[t].phrase,
                                         threads[t].language, threads[t].top_n,
                                         threads[t].matching_phrases) :
           threads' = [threads EXCEPT ![t] =
                           [pc |-> "answered", phrase |-> threads[t].phrase,
                            language |-> threads[t].language,
                            top_n |-> threads[t].top_n,
                            index_data |-> threads[t].index_data,
                            raised |-> out.raised, results |-> out.results]]
    /\ UNCHANGED <<texts_table, phrases_table, files, retriever, last>>

\* The caller of the query has taken the answer.
QueryReturn(t) ==
    /\ threads[t].pc = "answered"
    /\ threads' = [threads EXCEPT ![t] = IdleThread]
    /\ UNCHANGED <<texts_table, phrases_table, files, retriever, last>>

NextConc ==
    \/ \E t \in Threads, language \in ScorerLanguages : BuildRead(t, language)
    \/ \E t \in Threads : BuildDump(t)
    \/ \E t \in Threads : BuildAssign(t)
    \/ \E t \in Threads, phrase \in SearchWords, language \in Languages :
           QueryRead(t, phrase, language, MaxTopN)
    \/ \E t \in Threads : QueryScore(t)
    \/ \E t \in Threads : QueryReturn(t)
    \/ \E phrase \in QueryPhrases, proficiency \in Proficiencies,
          generated \in GeneratedSentences :
           GetPhraseWithExampleAndTranslation(phrase, proficiency, generated)
    \/ Return

SpecConc == InitConc /\ [][NextConc]_vars

(***************************************************************************)
(* GdexScorer.score_sentence called on its own                             *)
(***************************************************************************)
\* Sentences, target phrases and token lists handed to score_sentence: the
\* pool, S7 and S8, the one-word sentence "Zoo.", a text of one space, the
\* sentence's own tokens, no token, the 31 tokens of S4 and, with S6, the
\* first n of these for every n up to 30.
ScoreSentences == TextPool \cup {S7, S8, P_Zoo, Blank}
ScorePhrases == QueryPhrases \cup {Blank}
ScoreTokenLists(sentence) ==
    {quick_tokenize(sentence), <<>>, quick_tokenize(S4)}
        \cup (IF sentence = S6
              THEN {SubSeq(quick_tokenize(S4), 1, n) : n \in 1..30}
              ELSE {})
\* The tiers with weights of their own, and a name without ("expert" gets
\* the else branch of lines 151-159).
ScoreProficiencies == {"beginner", "intermediate", "advanced", "expert"}

InitScore ==
    /\ texts_table = <<>>
    /\ phrases_table = <<>>
    /\ files = <<>>
    /\ retriever = NoRetriever
    /\ threads = [t \in Threads |-> IdleThread]
    /\ \E language \in ScorerLanguages, proficiency \in ScoreProficiencies,
          sentence \in ScoreSentences, target_phrase \in ScorePhrases :
          \E tokenized_sentence \in ScoreTokenLists(sentence) :
             last = [op |-> "call_score_sentence", language |-> language,
                     proficiency |-> proficiency, sentence |-> sentence,
                     target_phrase |-> target_phrase,
                     tokenized_sentence |-> tokenized_sentence]

\* GdexScorer(language, proficiency).score_sentence(sentence, target_phrase,
\* tokenized_sentence)
ScoreSentenceCall ==
    /\ last.op = "call_score_sentence"
    /\ last' = [op |-> "score_sentence", language |-> last.language,
                proficiency |-> last.proficiency, sentence |-> last.sentence,
                target_phrase |-> last.target_phrase,
                tokenized_sentence |-> last.tokenized_sentence,
                scores |-> score_sentence(
                               GdexScorer(last.language, last.proficiency),
                               last.sentence, last.target_phrase,
                               last.tokenized_sentence)]
    /\ UNCHANGED <<texts_table, phrases_table, files, retriever, threads>>

NextScore == ScoreSentenceCall

SpecScore == InitScore /\ [][NextScore]_vars

(***************************************************************************)
(* _score_word_position called on its own                                  *)
(***************************************************************************)
\* The sentences: those handed to the scorer, the one-word sentences "zoo"
\* and "casa", and S11, where "a zoo" starts inside the word "panda".
PositionSentences == ScoreSentences \cup {S10, S11, P_zoo, P_casa, P_a_zoo}

InitPosition ==
    /\ texts_table = <<>>
    /\ phrases_table = <<>>
    /\ files = <<>>
    /\ retriever = NoRetriever
    /\ threads = [t \in Threads |-> IdleThread]
    /\ \E sentence \in PositionSentences, phrase \in ScorePhrases :
           last = [op |-> "call_score_word_position", sentence |-> sentence,
                   phrase |-> phrase]

ScoreWordPositionCall ==
    /\ last.op = "call_score_word_position"
    /\ last' = [op |-> "score_word_position", sentence |-> last.sentence,
                phrase |-> last.phrase,
                score |-> score_word_position(last.sentence, last.phrase)]
    /\ UNCHANGED <<texts_table, phrases_table, files, retriever, threads>>

NextPosition == ScoreWordPositionCall

SpecPosition == InitPosition /\ [][NextPosition]_vars

(***************************************************************************)
(* quick_tokenize called on its own                                        *)
(***************************************************************************)
\* The characters of the texts handed to quick_tokenize: ASCII letters of
\* both cases, a digit, the underscore, a letter outside ASCII, dropped and
\* kept punctuation, and whitespace.
TokenizeAlphabet == {"a", "B", "7", "_", "É", ",", "\"", "-", " "}
\* Longest text.
MaxTextLen == 3
\* The texts, as their characters.
TokenizeTexts == UNION {[1..n -> TokenizeAlphabet] : n \in 0..MaxTextLen}

InitTokenize ==
    /\ texts_table = <<>>
    /\ phrases_table = <<>>
    /\ files = <<>>
    /\ retriever = NoRetriever
    /\ threads = [t \in Threads |-> IdleThread]
    /\ \E text \in TokenizeTexts :
           last = [op |-> "call_quick_tokenize", text |-> text]

\* quick_tokenize(text)
QuickTokenizeCall ==
    /\ last.op = "call_quick_tokenize"
    /\ last' = [op |-> "quick_tokenize", text |-> last.text,
                tokens |-> LoweredKeptTokens(TOKEN_PATTERN_findall(last.text), 1)]
    /\ UNCHANGED <<texts_table, phrases_table, files, retriever, threads>>

NextTokenize == QuickTokenizeCall

SpecTokenize == InitTokenize /\ [][NextTokenize]_vars

(***************************************************************************)
(* Properties                                                              *)
(***************************************************************************)
\* C1: get_best_examples requires exact membership of every query token:
\* every returned sentence holds every query token in its cached
\* tokenization, and when a query token has an empty posting set the result
\* is the empty list (no partial-match fallback).
C1_ExactMembership ==
    (/\ last.op = "get_best_examples"
     /\ last.raised = None
     /\ last.language \in DOMAIN retriever.index_data) =>
        LET index_data == retriever.index_data[last.language]
            query_tokens == Range(quick_tokenize(last.phrase))
        IN /\ \A k \in DOMAIN last.results :
                  query_tokens \subseteq
                      Range(index_data.tokenized_texts[last.results[k].idx + 1])
           /\ (\E token \in query_tokens :
                   PostingsOf(index_data.token_to_phrases, token) = {})
                  => last.results = <<>>

\* C2: no result of get_best_examples has a total below 0.8; a candidate
\* whose total is 0.8 or more is not discarded, so the results are as many
\* as those candidates, up to top_n.
C2_NoResultBelowThreshold ==
    (last.op = "get_best_examples" /\ last.raised = None) =>
        /\ \A k \in DOMAIN last.results : RLe(R(8, 10), last.results[k].score)
        /\ (last.language \in DOMAIN retriever.index_data \cap ScorerLanguages) =>
               LET index_data == retriever.index_data[last.language]
                   matching_phrases == Candidates(index_data, last.phrase)
                   KeptUpTo(scores_of) ==
                       LET kept == {idx \in matching_phrases :
                                       RLe(R(8, 10), scores_of[idx].total)}
                       IN Len(last.results) =
                              IF last.top_n < Cardinality(kept) THEN last.top_n
                              ELSE Cardinality(kept)
               IN KeptUpTo(CandidateScores(index_data,
                                           gdex_scorer(retriever, last.language),
                                           last.phrase, matching_phrases, 0))

\* C2 happens: a query returned a sentence while another candidate of the
\* same query scored below 0.8 and is not among the results.
C2_Witness ==
    /\ last.op = "get_best_examples"
    /\ last.raised = None
    /\ last.results # <<>>
    /\ Len(last.results) < last.top_n
    /\ Cardinality(Candidates(retriever.index_data[last.language], last.phrase))
           > Len(last.results)

\* C3: the list get_best_examples returns is sorted by score, largest first,
\* has at most top_n elements, is made of the top_n highest-scoring accepted
\* candidates, and each element carries the sentence and the text_id, title
\* and category of its own phrase id.
C3_SortedTopN ==
    (last.op = "get_best_examples" /\ last.raised = None) =>
        /\ \A i, j \in DOMAIN last.results :
               i < j => RLe(last.results[j].score, last.results[i].score)
        /\ Len(last.results) <= last.top_n
        /\ (last.language \in DOMAIN retriever.index_data \cap ScorerLanguages) =>
               LET index_data == retriever.index_data[last.language]
                   matching_phrases == Candidates(index_data, last.phrase)
                   returned == {last.results[k].idx : k \in DOMAIN last.results}
                   TopOf(scores_of) ==
                       LET accepted == {idx \in matching_phrases :
                                           RLe(R(8, 10), scores_of[idx].total)}
                       IN /\ returned \subseteq accepted
                          /\ Cardinality(returned) = Len(last.results)
                          /\ Len(last.results) =
                                 IF last.top_n < Cardinality(accepted) THEN last.top_n
                                 ELSE Cardinality(accepted)
                          /\ \A k \in DOMAIN last.results :
                                 /\ last.results[k].score =
                                        scores_of[last.results[k].idx].total
                                 /\ \A idx \in accepted \ returned :
                                        RLe(scores_of[idx].total, last.results[k].score)
               IN /\ TopOf(CandidateScores(index_data,
                                           gdex_scorer(retriever, last.language),
                                           last.phrase, matching_phrases, 0))
                  /\ \A k \in DOMAIN last.results :
                         \E i \in DOMAIN phrases_table, j \in DOMAIN texts_table :
                             /\ phrases_table[i].id =
                                    index_data.phrase_ids[last.results[k].idx + 1]
                             /\ phrases_table[i].text = last.results[k].sentence
                             /\ texts_table[j].id = phrases_table[i].text_id
                             /\ last.results[k].text_id = texts_table[j].id
                             /\ last.results[k].title = texts_table[j].title
                             /\ last.results[k].category = texts_table[j].category

\* C3 happens: top_n results were returned, with different scores, out of
\* more candidates than top_n.
C3_Witness ==
    /\ last.op = "get_best_examples"
    /\ last.raised = None
    /\ last.top_n = 2
    /\ Len(last.results) = 2
    /\ last.results[1].score # last.results[2].score
    /\ Cardinality(Candidates(retriever.index_data[last.language], last.phrase)) > 2

\* C4: get_best_examples is deterministic: calls on the same index, scorer
\* and query return the same sequence, because results with equal totals
\* are in ascending order of their position in the index, whatever the order
\* in which the candidate set is iterated.
C4_Deterministic ==
    (last.op = "get_best_examples" /\ last.raised = None) =>
        \A i, j \in DOMAIN last.results :
            (i < j /\ last.results[i].score = last.results[j].score)
                => last.results[i].idx < last.results[j].idx

\* C5: after a build_sentence_index call that produces an index, phrase_ids,
\* texts and tokenized_texts have the same length and go position by
\* position (the text of the phrase with that id, and its tokens); every
\* position in the posting set of a token holds that token; every token of
\* a position is a key whose posting set holds the position; and the index
\* is the retriever's index of the language.
C5_IndexConsistent ==
    (last.op = "build_sentence_index" /\ ~IsEmptyDict(last.result)) =>
        LET d == last.result
        IN /\ Len(d.phrase_ids) = Len(d.texts)
           /\ Len(d.texts) = Len(d.tokenized_texts)
           /\ \A i \in DOMAIN d.texts :
                  /\ \E r \in DOMAIN phrases_table :
                         /\ phrases_table[r].id = d.phrase_ids[i]
                         /\ phrases_table[r].text = d.texts[i]
                         /\ phrases_table[r].language = last.language
                  /\ d.tokenized_texts[i] = quick_tokenize(d.texts[i])
                  /\ \A token \in Range(d.tokenized_texts[i]) :
                         /\ token \in DOMAIN d.token_to_phrases
                         /\ (i - 1) \in d.token_to_phrases[token]
           /\ \A token \in DOMAIN d.token_to_phrases :
                  \A p \in d.token_to_phrases[token] :
                      /\ p \in 0..(Len(d.texts) - 1)
                      /\ token \in Range(d.tokenized_texts[p + 1])
           /\ retriever.index_data[last.language] = d

\* C5 happens: a build indexed three sentences or more, skipped a phrase of
\* the language (positions are not the ids), and a token has two positions.
C5_Witness ==
    /\ last.op = "build_sentence_index"
    /\ ~IsEmptyDict(last.result)
    /\ Len(last.result.texts) >= 3
    /\ \E r \in DOMAIN phrases_table :
           /\ phrases_table[r].language = last.language
           /\ phrases_table[r].id \notin Range(last.result.phrase_ids)
    /\ \E token \in DOMAIN last.result.token_to_phrases :
           Cardinality(last.result.token_to_phrases[token]) >= 2

\* C6: in every state of the retriever's in-memory index, after the load
\* from disk and after any builds, no indexed sentence has more than 30
\* tokens.
C6_LengthCap ==
    HasRetriever =>
        \A language \in DOMAIN retriever.index_data :
            \A i \in DOMAIN retriever.index_data[language].tokenized_texts :
                Len(retriever.index_data[language].tokenized_texts[i]) <= 30

\* C6 happens: the retriever was constructed and loaded from disk an index
\* of a language whose 31-token sentence was in the database when the index
\* was built.
C6_Witness ==
    /\ last.op = "get_sentence_retriever"
    /\ "en" \in DOMAIN retriever.index_data
    /\ \E r \in DOMAIN phrases_table :
           /\ phrases_table[r].text = S4
           /\ Len(quick_tokenize(S4)) = 31
           /\ \E i \in DOMAIN retriever.index_data["en"].phrase_ids :
                  retriever.index_data["en"].phrase_ids[i] > phrases_table[r].id

\* C7: for every language, proficiency, non-empty sentence, target phrase
\* and token list, score_sentence returns six sub-scores and a total, each
\* within [0, 1], the total being the sum of the sub-scores weighted with the
\* weights of the proficiency, which sum to 1.
C7_ScoreBounded ==
    (last.op = "score_sentence" /\ last.sentence # "") =>
        /\ DOMAIN last.scores = Range(ScoreKeys) \cup {"total"}
        /\ \A key \in DOMAIN last.scores :
               RLe(Zero, last.scores[key]) /\ RLe(last.scores[key], One)
        /\ last.scores.total =
               WeightedSum(last.scores, Weights(last.proficiency), 1)
        /\ Weights(last.proficiency).length
               + Weights(last.proficiency).target_position
               + Weights(last.proficiency).common_words
               + Weights(last.proficiency).avoid_words
               + Weights(last.proficiency).pronouns
               + Weights(last.proficiency).syntactic = 100

\* C8: after the phrase service has saved a generated sentence and gone
\* through the incremental add on a live index of the language, a query
\* whose only token is a token of that sentence has the sentence among its
\* candidates, without a rebuild.
C8_AddVisible ==
    (/\ last.op = "get_phrase_with_example_and_translation"
     /\ last.language \in DOMAIN retriever.index_data) =>
        LET index_data == retriever.index_data[last.language]
        IN \A token \in Range(quick_tokenize(last.example_phrase)) :
               \E p \in MatchingPhrases({}, index_data.token_to_phrases, <<token>>, 1) :
                   index_data.phrase_ids[p + 1] = last.phrase_id

\* C9: the incremental add is append-only: over the add of one phrase to a
\* live index the parallel arrays grow by exactly one, every position that
\* existed keeps its id, text, tokens and posting memberships, and the new
\* phrase id is in the reverse map (the inverse of the id array) and in the
\* metadata.
C9_AppendOnly ==
    [][(/\ last'.op = "get_phrase_with_example_and_translation"
        /\ HasRetriever
        /\ last'.language \in DOMAIN retriever.index_data) =>
           LET old == retriever.index_data[last'.language]
               new == retriever'.index_data[last'.language]
               n == Len(old.texts)
           IN /\ Len(new.texts) = n + 1
              /\ Len(new.phrase_ids) = n + 1
              /\ Len(new.tokenized_texts) = n + 1
              /\ SubSeq(new.texts, 1, n) = old.texts
              /\ SubSeq(new.phrase_ids, 1, n) = old.phrase_ids
              /\ SubSeq(new.tokenized_texts, 1, n) = old.tokenized_texts
              /\ \A token \in DOMAIN old.token_to_phrases :
                     /\ token \in DOMAIN new.token_to_phrases
                     /\ old.token_to_phrases[token] \subseteq new.token_to_phrases[token]
              /\ new.phrase_ids[n + 1] = last'.phrase_id
              /\ "phrase_id2idx" \in DOMAIN new
              /\ \A i \in DOMAIN new.phrase_ids :
                     new.phrase_id2idx[new.phrase_ids[i]] = i - 1
              /\ last'.phrase_id \in DOMAIN new.metadata]_vars

\* C10: changes of a language's index are serialized, so that once every
\* thread is out of build_sentence_index the in-memory index of a language
\* is the index file written last.
C10_Serialized ==
    (\A t \in Threads : threads[t].pc = "idle") =>
        \A language \in DOMAIN files \cap DOMAIN retriever.index_data :
            retriever.index_data[language] = files[language]


\* C11: get_best_examples for a language that has no index in memory
\* returns the empty list and raises nothing, whatever the phrase and top_n,
\* and leaves the retriever and its indexes as they were.
C11_UnsupportedLanguage ==
    [][(/\ last'.op = "get_best_examples"
        /\ last'.language \notin DOMAIN retriever.index_data) =>
           /\ last'.raised = None
           /\ last'.results = <<>>
           /\ retriever' = retriever]_vars

\* C11 happens: with an "en" index in memory and French sentences in the
\* database, a query for a token of a French sentence in "fr", which has no
\* index, was answered.
C11_Witness ==
    /\ last.op = "get_best_examples"
    /\ last.language = "fr"
    /\ last.phrase = P_zoo
    /\ "en" \in DOMAIN retriever.index_data
    /\ "fr" \notin DOMAIN retriever.index_data
    /\ \E r \in DOMAIN phrases_table : phrases_table[r].language = "fr"

\* C12: what a caller gets for a query against a language that has no index
\* differs from what it gets for a valid query that matches nothing, at
\* get_best_examples and at the HTTP search endpoint: no query on an indexed
\* language without a candidate has the outcome of the query on the language
\* without index.
C12_Distinguishable ==
    /\ (/\ last.op = "get_best_examples"
        /\ last.language \notin DOMAIN retriever.index_data) =>
           \A language \in DOMAIN retriever.index_data, phrase \in QueryPhrases :
               Candidates(retriever.index_data[language], phrase) = {} =>
                   [raised |-> last.raised, results |-> last.results]
                       \notin get_best_examples(retriever, phrase, language,
                                                last.top_n)
    /\ (/\ last.op = "get_sentences_for_word"
        /\ last.language \notin DOMAIN retriever.index_data) =>
           \A language \in DOMAIN retriever.index_data, phrase \in QueryPhrases :
               Candidates(retriever.index_data[language], phrase) = {} =>
                   [raised |-> last.raised, status_code |-> last.status_code,
                    detail |-> last.detail, results |-> last.results]
                       \notin get_sentences_for_word(retriever, phrase, language,
                                                     last.top_n)

\* C13: build_sentence_index for a language with zero qualifying records (no
\* record of the language, or none within the limits of 35 words and 30
\* tokens) returns {} without raising, and after it every get_best_examples
\* for the language returns the empty list, whatever index the retriever
\* held for the language before.
C13_EmptyBuild ==
    (/\ last.op = "build_sentence_index"
     /\ \A r \in DOMAIN phrases_table :
            phrases_table[r].language = last.language =>
                \/ Len(Split(Chars(phrases_table[r].text))) > 35
                \/ Len(quick_tokenize(phrases_table[r].text)) > 30) =>
        /\ IsEmptyDict(last.result)
        /\ \A phrase \in QueryPhrases, top_n \in TopNs :
               get_best_examples(retriever, phrase, last.language, top_n)
                   = {Returned(<<>>)}

\* C14: persistence round trip: over a build_sentence_index(L) that produces
\* an index, the file sentence_index_L gets exactly the index kept in
\* memory; and a retriever constructed afterwards has, for every index file
\* L, an index_data[L] equal to the file in phrase_ids, texts,
\* tokenized_texts, token_to_phrases and metadata.
C14_RoundTrip ==
    [][/\ (/\ last'.op = "build_sentence_index"
           /\ ~IsEmptyDict(last'.result)) =>
              /\ files'[last'.language] = last'.result
              /\ retriever'.index_data[last'.language] = files'[last'.language]
       /\ (/\ last'.op = "get_sentence_retriever"
           /\ ~HasRetriever) =>
              \A language \in DOMAIN files :
                  /\ language \in DOMAIN retriever'.index_data
                  /\ \A field \in {"phrase_ids", "texts", "tokenized_texts",
                                   "token_to_phrases", "metadata"} :
                         retriever'.index_data[language][field]
                             = files[language][field]]_vars

\* C15: loading builds the missing indexes: when a retriever is constructed
\* while "en" or "es" has no index file and the database holds sentences of
\* the language within the limits of 35 words and 30 tokens, the language is
\* in index_data after the load, with every such sentence indexed.
C15_LazyBuild ==
    [][(/\ last'.op = "get_sentence_retriever"
        /\ ~HasRetriever) =>
           \A language \in {"en", "es"} \ DOMAIN files :
               LET qualifying ==
                       {r \in DOMAIN phrases_table :
                           /\ phrases_table[r].language = language
                           /\ Len(Split(Chars(phrases_table[r].text))) <= 35
                           /\ Len(quick_tokenize(phrases_table[r].text)) <= 30}
               IN qualifying # {} =>
                      /\ language \in DOMAIN retriever'.index_data
                      /\ \A r \in qualifying :
                             phrases_table[r].id \in
                                 Range(retriever'.index_data[language].phrase_ids)]_vars

\* C16: get_sentence_retriever is a singleton: once the process has a
\* retriever, a call with any proficiency returns that retriever and
\* constructs none, so the retriever keeps the proficiency of the first call
\* and its scorers are those of that proficiency, not of the one asked for.
C16_Singleton ==
    [][(/\ HasRetriever
        /\ last'.op = "get_sentence_retriever") =>
           /\ retriever' = retriever
           /\ \A language \in ScorerLanguages :
                  gdex_scorer(retriever', language)
                      = GdexScorer(language, retriever.user_proficiency)]_vars

\* C16 happens: a call for a proficiency other than the one of the first
\* call was answered while the index files differ from the indexes the
\* retriever holds, so a new retriever would differ in both.
C16_Witness ==
    /\ last.op = "get_sentence_retriever"
    /\ HasRetriever
    /\ last.proficiency # retriever.user_proficiency
    /\ LoadExistingIndexes(files) # retriever.index_data

\* C17: search_for_sentences(word, language, top_n, proficiency) has a
\* retriever, calls get_best_examples with exactly phrase=word,
\* language=language and top_n=top_n, where an argument left out is "en", 5
\* or "intermediate", and when that call returns examples it returns one
\* entry for each, in the same order, with the sentence and the score of the
\* example and the text_id as id.
C17_SearchCall ==
    last.op = "search_for_sentences" =>
        /\ HasRetriever
        /\ last.word = last.args.word
        /\ last.language =
               (IF "language" \in DOMAIN last.args THEN last.args.language ELSE "en")
        /\ last.top_n =
               (IF "top_n" \in DOMAIN last.args THEN last.args.top_n ELSE 5)
        /\ last.proficiency =
               (IF "proficiency" \in DOMAIN last.args THEN last.args.proficiency
                ELSE "intermediate")
        /\ last.called_with =
               [phrase |-> last.word, language |-> last.language,
                top_n |-> last.top_n]
        /\ \E out \in get_best_examples(retriever, last.word, last.language,
                                        last.top_n) :
               out.raised = None =>
                   /\ last.raised = None
                   /\ Len(last.results) = Len(out.results)
                   /\ \A k \in DOMAIN out.results :
                          /\ last.results[k].sentence = out.results[k].sentence
                          /\ last.results[k].score = out.results[k].score
                          /\ last.results[k].id = str(out.results[k].text_id)

\* C18: a search_for_sentences call whose query finds nothing (no candidate,
\* or none with a total of 0.8 or more) returns the empty list and raises
\* nothing; the call raises only when get_best_examples of the retriever
\* raises.
C18_NothingFound ==
    last.op = "search_for_sentences" =>
        /\ \A out \in get_best_examples(retriever, last.word, last.language,
                                        last.top_n) :
               (out.raised = None /\ out.results = <<>>) =>
                   (last.raised = None /\ last.results = <<>>)
        /\ last.raised # None =>
               \E out \in get_best_examples(retriever, last.word, last.language,
                                            last.top_n) : out.raised # None

\* C19: quick_tokenize returns, in order of occurrence, the lowercased form
\* of each maximal run of ASCII letters and digits and of each single
\* character that is neither a word character nor whitespace, except the
\* marks , . ; : ! ? ( ) [ ] { } " '; so no token is empty, is one of those
\* marks or is a piece of the text that holds an uppercase letter, and a
\* text that is empty or all whitespace has no token.
C19_Tokens ==
    last.op = "quick_tokenize" =>
        LET text == last.text
            dropped == {",", ".", ";", ":", "!", "?", "(", ")", "[", "]",
                        "{", "}", "\"", "'"}
            alnum == {"a", "b", "c", "d", "e", "f", "g", "h", "i", "j", "k",
                      "l", "m", "n", "o", "p", "q", "r", "s", "t", "u", "v",
                      "w", "x", "y", "z", "A", "B", "C", "D", "E", "F", "G",
                      "H", "I", "J", "K", "L", "M", "N", "O", "P", "Q", "R",
                      "S", "T", "U", "V", "W", "X", "Y", "Z", "0", "1", "2",
                      "3", "4", "5", "6", "7", "8", "9"}
            symbol(c) == c \notin alnum /\ ~IsWordChar(c) /\ ~IsSpace(c)
            starts == {i \in DOMAIN text :
                          \/ text[i] \in alnum /\ (i = 1 \/ text[i - 1] \notin alnum)
                          \/ symbol(text[i]) /\ text[i] \notin dropped}
            end(i) == IF text[i] \in alnum
                      THEN CHOOSE j \in i..Len(text) :
                               /\ \A n \in i..j : text[n] \in alnum
                               /\ j = Len(text) \/ text[j + 1] \notin alnum
                      ELSE i
            start(k) == CHOOSE i \in starts :
                            Cardinality({j \in starts : j < i}) = k - 1
        IN /\ Len(last.tokens) = Cardinality(starts)
           /\ \A k \in DOMAIN last.tokens :
                  /\ last.tokens[k] =
                         Str([n \in 1..(end(start(k)) - start(k) + 1) |->
                                 LowerChar(text[start(k) + n - 1])])
                  /\ last.tokens[k] # ""
                  /\ last.tokens[k] \notin dropped
                  /\ \A i \in DOMAIN text : \A j \in i..Len(text) :
                         (\E n \in i..j : IsUpper(text[n])) =>
                             last.tokens[k] # Str(SubSeq(text, i, j))
           /\ (\A i \in DOMAIN text : IsSpace(text[i])) => last.tokens = <<>>

\* C19 happens: a text with an uppercase letter, a letter outside ASCII and
\* a dropped mark was tokenized into a lowered token.
C19_Witness ==
    /\ last.op = "quick_tokenize"
    /\ last.text = <<"B", ",", "É">>
    /\ last.tokens = <<"b">>

\* C20: for a target phrase of two tokens and a sentence whose words hold
\* both tokens, every occurrence of the second before every occurrence of
\* the first, the target_position sub-score is at most 0.2.
C20_ReverseOrder ==
    (/\ last.op = "score_sentence"
     /\ "error" \notin DOMAIN last.scores) =>
        LET target_tokens == Split(Lower(Chars(last.target_phrase)))
            sentence_tokens == GdexTokenize(Strip(Chars(last.sentence)))
        IN (/\ Len(target_tokens) = 2
            /\ \E i \in DOMAIN sentence_tokens :
                   sentence_tokens[i] = target_tokens[1]
            /\ \E j \in DOMAIN sentence_tokens :
                   sentence_tokens[j] = target_tokens[2]
            /\ \A i, j \in DOMAIN sentence_tokens :
                   (/\ sentence_tokens[i] = target_tokens[1]
                    /\ sentence_tokens[j] = target_tokens[2]) => j < i) =>
               RLe(last.scores.target_position, R(2, 10))

\* C21, as stated: when a token of the target phrase is absent from the
\* sentence, target_position is a low score that is not zero in the
\* single-word path, and zero in the multi-word path.
C21_HardMissAsStated ==
    (/\ last.op = "score_sentence"
     /\ "error" \notin DOMAIN last.scores) =>
        LET sentence_lower == Lower(Strip(Chars(last.sentence)))
            sentence_tokens == GdexTokenize(Strip(Chars(last.sentence)))
            target_tokens == Split(Lower(Chars(last.target_phrase)))
            absent(k) == \A i \in DOMAIN sentence_tokens :
                             ~Contains(sentence_tokens[i], target_tokens[k])
        IN /\ (/\ Len(target_tokens) = 1
               /\ ~Contains(sentence_lower, target_tokens[1])) =>
                  /\ last.scores.target_position # Zero
                  /\ RLe(last.scores.target_position, R(2, 10))
           /\ (/\ Len(target_tokens) >= 2
               /\ \E k \in DOMAIN target_tokens : absent(k)) =>
                  last.scores.target_position = Zero

\* C21, amended: in the single-word path a target word that is not in the
\* lowered sentence scores 0; in the multi-word path, when the phrase is not
\* in the lowered sentence and a phrase token is in no sentence token, the
\* score is 0.1.
C21_HardMiss ==
    (/\ last.op = "score_sentence"
     /\ "error" \notin DOMAIN last.scores) =>
        LET sentence_lower == Lower(Strip(Chars(last.sentence)))
            sentence_tokens == GdexTokenize(Strip(Chars(last.sentence)))
            target_lower == Lower(Chars(last.target_phrase))
            target_tokens == Split(target_lower)
            absent(k) == \A i \in DOMAIN sentence_tokens :
                             ~Contains(sentence_tokens[i], target_tokens[k])
        IN /\ (/\ Len(target_tokens) = 1
               /\ ~Contains(sentence_lower, target_tokens[1])) =>
                  last.scores.target_position = Zero
           /\ (/\ Len(target_tokens) >= 2
               /\ ~Contains(sentence_lower, target_lower)
               /\ \E k \in DOMAIN target_tokens : absent(k)) =>
                  last.scores.target_position = R(1, 10)

\* C21 happens: "zz zoo" was scored on a sentence that holds "zoo" and not
\* "zz".
C21_Witness ==
    /\ last.op = "score_sentence"
    /\ last.sentence = S1
    /\ last.target_phrase = P_zz_zoo
    /\ last.scores.target_position = R(1, 10)

\* C22, as stated: for a single-token target that occurs in the sentence,
\* target_position is 1.0 when the character offset of the match divided by
\* the length of the sentence is between 0.4 and 0.7, and below 1.0 when it
\* is outside that band.
C22_MiddleBandAsStated ==
    (/\ last.op = "score_sentence"
     /\ "error" \notin DOMAIN last.scores) =>
        LET sentence_lower == Lower(Strip(Chars(last.sentence)))
            target_tokens == Split(Lower(Chars(last.target_phrase)))
            InBand(ratio) ==
                IF RLe(R(4, 10), ratio) /\ RLe(ratio, R(7, 10))
                THEN last.scores.target_position = One
                ELSE RLt(last.scores.target_position, One)
        IN (/\ Len(target_tokens) = 1
            /\ Contains(sentence_lower, target_tokens[1])) =>
               InBand(R(Find(sentence_lower, target_tokens[1]), Len(sentence_lower)))

\* C22, amended: the band is 0.3 to 0.7, both ends included; below it the
\* score is 0.5 + (ratio / 0.3) * 0.5 and above it 0.5 + ((1 - ratio) / 0.3)
\* * 0.5, so it is below 1.0, at least 0.5, and smaller the nearer the match
\* is to the edge of the sentence.
C22_MiddleBand ==
    (/\ last.op = "score_sentence"
     /\ "error" \notin DOMAIN last.scores) =>
        LET sentence_lower == Lower(Strip(Chars(last.sentence)))
            target_tokens == Split(Lower(Chars(last.target_phrase)))
            Tapered(ratio, edge_distance) ==
                IF RLe(R(3, 10), ratio) /\ RLe(ratio, R(7, 10))
                THEN last.scores.target_position = One
                ELSE /\ RLt(last.scores.target_position, One)
                     /\ RLe(Half, last.scores.target_position)
                     /\ last.scores.target_position =
                            RAdd(Half, RMul(edge_distance, R(5, 3)))
            Score(ratio) ==
                Tapered(ratio, IF RLt(ratio, Half) THEN ratio ELSE RSub(One, ratio))
        IN (/\ Len(target_tokens) = 1
            /\ Contains(sentence_lower, target_tokens[1])) =>
               Score(R(Find(sentence_lower, target_tokens[1]), Len(sentence_lower)))

\* C22 happens: "zoo" was scored on "I go to a zoo.", where it starts at
\* 10 of 14 characters, past the band, and on no other side of it.
C22_Witness ==
    /\ last.op = "score_sentence"
    /\ last.sentence = S6
    /\ last.target_phrase = P_zoo
    /\ last.scores.target_position = R(41, 42)

\* C23: the length sub-score for n tokens, with the bounds (5, 10) of
\* beginner, (7, 15) of intermediate and (10, 20) of advanced: within the
\* bounds it is 1 less half the distance from the midpoint relative to the
\* half width (1 at the midpoint, 0.5 at either bound); below the lower
\* bound it is 0.5 * n / min, which is 0 at n = 0; above the upper bound it
\* is 0.5 * (30 - n) / (30 - max), which is 0 at n = 30, and 0 for n > 30;
\* outside the bounds it is never more than 0.5.
C23_LengthScore ==
    (/\ last.op = "score_sentence"
     /\ "error" \notin DOMAIN last.scores
     /\ last.proficiency \in {"beginner", "intermediate", "advanced"}) =>
        LET n == Len(last.tokenized_sentence)
            mn == CASE last.proficiency = "beginner" -> 5
                    [] last.proficiency = "intermediate" -> 7
                    [] last.proficiency = "advanced" -> 10
            mx == CASE last.proficiency = "beginner" -> 10
                    [] last.proficiency = "intermediate" -> 15
                    [] last.proficiency = "advanced" -> 20
            twice_distance == IF 2 * n >= mn + mx THEN 2 * n - (mn + mx)
                              ELSE (mn + mx) - 2 * n
            length == last.scores.length
        IN /\ (mn <= n /\ n <= mx) =>
                  /\ length = RSub(One, R(twice_distance, 2 * (mx - mn)))
                  /\ (2 * n = mn + mx => length = One)
                  /\ (n \in {mn, mx} => length = Half)
           /\ n < mn => (length = R(n, 2 * mn) /\ (n = 0 => length = Zero))
           /\ (mx < n /\ n <= 30) =>
                  (length = R(30 - n, 2 * (30 - mx)) /\ (n = 30 => length = Zero))
           /\ n > 30 => length = Zero
           /\ (n < mn \/ n > mx) => RLe(length, Half)

\* C23 happens: 30 tokens were scored for the advanced tier, and the length
\* score is 0.
C23_Witness ==
    /\ last.op = "score_sentence"
    /\ last.proficiency = "advanced"
    /\ Len(last.tokenized_sentence) = 30
    /\ last.scores.length = Zero

\* The accumulated lists when lines 136-149 run on every selected phrase,
\* without the pre-filter of lines 120-126.
RECURSIVE IndexPhrasesByCapAlone(_, _, _)
IndexPhrasesByCapAlone(acc, phrases, k) ==
    IF k > Len(phrases) THEN acc
    ELSE IndexPhrasesByCapAlone(IndexPhrase(acc, phrases[k]), phrases, k + 1)

\* The index of a language built with the exact cap of 30 tokens alone.
IndexByCapAlone(db, phrases) ==
    IF phrases = <<>> THEN EmptyDict
    ELSE IndexDataOf(db,
             IndexPhrasesByCapAlone([phrase_ids |-> <<>>, texts |-> <<>>,
                                     tokenized_texts |-> <<>>,
                                     token_to_phrases |-> <<>>],
                                    phrases, 1))

\* C24: the pre-filter on whitespace-separated words loses no qualifying
\* sentence: every phrase of the language with more than 35 words has more
\* than 30 tokens, and the index build_sentence_index returns equals the
\* index built with the cap of 30 tokens alone.
C24_PrefilterLosesNothing ==
    last.op = "build_sentence_index" =>
        /\ \A r \in DOMAIN phrases_table :
               (/\ phrases_table[r].language = last.language
                /\ ~PassesPrefilter(phrases_table[r])) =>
                   Len(quick_tokenize(phrases_table[r].text)) > MAX_SENTENCE_TOKENS
        /\ last.result
               = IndexByCapAlone(DB, SelectPhrases(phrases_table, last.language, 1))

\* C25: index errors stay within their language.  When a retriever is
\* constructed, every file of "en" and "es" that can be read is loaded as it
\* is, whatever the state of the other file, a file that cannot be read
\* leaves its language out, and no file changes.  When import_all_books
\* builds the indexes, a language whose build succeeds gets the file of its
\* index whether or not the other language fails, a language whose build
\* fails keeps the file it had, and the index held in memory by the server
\* does not change.
C25_IsolatedPerLanguage ==
    [][/\ (/\ last'.op = "get_sentence_retriever"
           /\ ~HasRetriever) =>
              /\ files' = files
              /\ \A language \in {"en", "es"} :
                     IF language \in DOMAIN files /\ files[language] # Corrupt
                     THEN /\ language \in DOMAIN retriever'.index_data
                          /\ retriever'.index_data[language] = files[language]
                     ELSE language \notin DOMAIN retriever'.index_data
       /\ last'.op = "import_all_books" =>
              /\ retriever' = retriever
              /\ \A language \in {"en", "es"} :
                     IF /\ language \in last'.spacy_ok
                        /\ ~IsEmptyDict(BuiltIndex(DB', language))
                     THEN /\ language \in DOMAIN files'
                          /\ files'[language] = BuiltIndex(DB', language)
                     ELSE /\ language \in DOMAIN files' <=> language \in DOMAIN files
                          /\ language \in DOMAIN files =>
                                 files'[language] = files[language]]_vars

\* The file of "en" cannot be read and the index of "es" is loaded.
C25_Witness ==
    /\ last.op = "get_sentence_retriever"
    /\ "en" \in DOMAIN files
    /\ files["en"] = Corrupt
    /\ "es" \in DOMAIN retriever.index_data
    /\ retriever.index_data["es"] = files["es"]

\* An index whose lists and postings belong together: the three lists have
\* one length, every phrase id has its metadata, and the posting set of a
\* token holds exactly the positions whose tokens have it.
WholeIndex(d) ==
    /\ Len(d.phrase_ids) = Len(d.texts)
    /\ Len(d.texts) = Len(d.tokenized_texts)
    /\ DOMAIN d.metadata = Range(d.phrase_ids)
    /\ DOMAIN d.token_to_phrases = UNION {Range(d.tokenized_texts[i]) : i \in DOMAIN d.texts}
    /\ \A token \in DOMAIN d.token_to_phrases :
           d.token_to_phrases[token]
               = {i - 1 : i \in {j \in DOMAIN d.texts : token \in Range(d.tokenized_texts[j])}}

\* C26: a query that runs beside a build of its language works on one whole
\* index from its first read to its answer.  Every index in index_data is
\* whole in every state (a build publishes its index with one assignment and
\* changes no published index); the candidates of a query thread are those
\* of the index object it took, which is whole; and the answer of the
\* thread is an answer of get_best_examples on that index object alone.
C26_OldOrNew ==
    /\ [](/\ \A language \in DOMAIN retriever.index_data :
                WholeIndex(retriever.index_data[language])
          /\ \A t \in Threads :
                 threads[t].pc = "score" =>
                     /\ WholeIndex(IndexOfQuery(t))
                     /\ threads[t].matching_phrases
                            = Candidates(IndexOfQuery(t), threads[t].phrase))
    /\ [][\A t \in Threads :
              (threads[t].pc = "score" /\ threads'[t].pc = "answered") =>
                  /\ threads'[t].index_data = threads[t].index_data
                  /\ [raised |-> threads'[t].raised, results |-> threads'[t].results]
                         \in OutcomesOnIndex(retriever, threads[t].index_data,
                                             threads[t].phrase, threads[t].language,
                                             threads[t].top_n)]_vars

\* C26 happens: a query has answered from the index it took, with a
\* sentence, after a build has published another index of the language.
C26_Witness ==
    \E t \in Threads :
        /\ threads[t].pc = "answered"
        /\ threads[t].results # <<>>
        /\ threads[t].language \in DOMAIN retriever.index_data
        /\ ~IsEmptyDict(threads[t].index_data)
        /\ retriever.index_data[threads[t].language] # threads[t].index_data

\* C27: get_best_examples never raises: every language that has an index
\* in index_data, loaded at construction or installed by a build, has a
\* scorer, and a query with candidates is scored.
C27_NeverRaises ==
    /\ HasRetriever => DOMAIN retriever.index_data \subseteq ScorerLanguages
    /\ last.op = "get_best_examples" => last.raised = None

\* C28: no sentence get_best_examples returns has a token of the language's
\* avoid words.
C28_NoAvoidWordReturned ==
    (last.op = "get_best_examples" /\ last.language \in ScorerLanguages) =>
        \A i \in DOMAIN last.results :
            Range(quick_tokenize(last.results[i].sentence))
                \cap gdex_scorer(retriever, last.language).avoid_words = {}

\* C29: a scorer constructed with a proficiency that is none of the three
\* tiers scores every sentence and target phrase as the intermediate scorer
\* of the language does: the six sub-scores and the total are equal.
C29_UnknownTierIsIntermediate ==
    (/\ last.op = "score_sentence"
     /\ last.proficiency \notin {"beginner", "intermediate", "advanced"}) =>
        last.scores = score_sentence(GdexScorer(last.language, "intermediate"),
                                     last.sentence, last.target_phrase,
                                     last.tokenized_sentence)

\* C30: _score_word_position returns a value from 0 to 1 for every sentence
\* and every phrase of one word or more, and the sentence that is the
\* one-word target itself scores at least what the target scores in any
\* sentence.
C30_WordPosition ==
    last.op = "score_word_position" =>
        /\ RLe(Zero, last.score)
        /\ RLe(last.score, One)
        /\ Len(Split(Lower(Chars(last.phrase)))) = 1 =>
               RLe(last.score, score_word_position(last.phrase, last.phrase))
====
